---- MODULE Spec2Model ----
(***************************************************************************)
(* Model of the caption-matching and region-filtering core of VisArchPy    *)
(* (src/visarchpy/ocr.py, captions.py, pipelines.py).                      *)
(*                                                                         *)
(* A Python dict (insertion ordered) is a sequence of records              *)
(* [id |-> key, box |-> <<x0, y0, x1, y1>>] with pairwise distinct ids.    *)
(***************************************************************************)
EXTENDS Integers, Sequences, FiniteSets, TLC

VARIABLES
    fpc,        \* position of the region-filter driver: "start", "once", "twice"
    bboxes,     \* the mapping handed to filter_bbox_contained
    result,     \* its return value
    result2,    \* the return value of a second application, on result
    dpc,            \* find_caption_by_distance driver: "start", "done"
    image_object,   \* its image argument
    text_object,    \* its text argument
    offset,         \* its Offset argument
    direction,      \* its direction argument
    dresult,        \* what the call did: "match", "False" or the error raised
    lpc,            \* extract_visuals_by_layout: "page", "images", "done", "raised"
    page,           \* the sorted page: [images, texts]
    layout_settings,    \* the caption settings: [offset, direction, keywords]
    img_i,          \* number of images of the page processed so far
    bbox_matches,   \* the distance matches of the image processed last
    visual,         \* the Visual of the image processed last
    visuals,        \* metadata.visuals
    no_image_pages, \* pages on which layout analysis found no image
    tpc,            \* find_caption_by_text driver: "start", "done"
    t_element,   \* its text element
    t_keywords,       \* its keyword list
    tresult,        \* what the call did: "match", "False" or the error raised
    spc,            \* filter_bbox_by_size driver: "start", "done"
    size_bboxes,    \* the mapping handed to filter_bbox_by_size
    s_min_width,      \* its min_width argument: <<>> is None, <<n>> the number n
    s_min_height,     \* its min_height argument, likewise
    s_aspect_ratio,   \* its aspect_ratio argument: [type, ratio, operator]
    sresult,        \* [raised, value]: the exception raised or the mapping returned
    cpc,            \* unit-conversion driver: "start", "converted", "bbox"
    c_quantity,     \* the quantity handed to convert_dpi_to_point
    c_dpi,          \* its dpi argument: [type, value]
    c_box,          \* the BoundingBox whose bbox() is called
    cresult,        \* [raised, value]: the exception raised or the value returned
    mpc,            \* number of calls made on the Visual and the Metadata
    m_visual,       \* a Visual: [bbox, bbox_units, caption, location]
    m_metadata,     \* a Metadata: [visuals, total_visuals]
    m_paths,        \* the FilePath objects made so far, as they are now
    m_location,     \* which of them m_visual.location is, 0 for None
    m_call,         \* the calls made: name, arguments and the exception raised
    rpc,            \* region-filter frame driver: "start", "done"
    r_given,        \* the mapping as it was when handed to the filter
    r_bboxes,       \* the same mapping object after the call
    r_call,         \* the filter called and its arguments
    r_output,       \* [raised, value]: the exception raised or the mapping returned
    opc,            \* extract_visuals_by_ocr, position in the processing of a page
    ocr_settings,   \* the OCR settings
    ocr_results,    \* the page's entry of ocr_results: [bboxes, text_bboxes]
    ocr_given,      \* the non-text regions as extracted from the page
    ocr_texts,      \* what region_to_string reads in each text region
    ocr_i,          \* number of regions of the page turned into a Visual so far
    ocr_matches,    \* the distance matches of the region processed last
    ocr_visuals,    \* the Metadata the Visuals are added to
    ocr_warnings,   \* number of warnings logged for captions that were ignored
    upc,            \* LayoutOCR.run, position in the processing of a PDF file
    pdf_files,      \* PDF_FILES: for every file its sorted pages
    pdf_i,          \* number of files processed completely
    page_i,         \* number of pages of the current step processed so far
    layout_results, \* layout_results["no_images_pages"] of the current file
    run_log,        \* the steps taken so far: [step, pdf, page]
    hpc,            \* extract_bboxes_from_horc driver: "start", "done"
    h_images,       \* its images: for each the paragraphs Tesseract recognises
    h_entry_id,     \* its entry_id argument
    h_page_number,  \* its page_number argument
    hocr_results    \* the dictionary returned

filter_vars == <<fpc, bboxes, result, result2>>
distance_vars == <<dpc, image_object, text_object, offset, direction, dresult>>
layout_vars == <<lpc, page, layout_settings, img_i, bbox_matches, visual,
                 visuals, no_image_pages>>
text_vars == <<tpc, t_element, t_keywords, tresult>>
size_vars == <<spc, size_bboxes, s_min_width, s_min_height, s_aspect_ratio, sresult>>
conv_vars == <<cpc, c_quantity, c_dpi, c_box, cresult>>
meta_vars == <<mpc, m_visual, m_metadata, m_paths, m_location, m_call>>
frame_vars == <<rpc, r_given, r_bboxes, r_call, r_output>>
ocr_vars == <<opc, ocr_settings, ocr_results, ocr_given, ocr_texts, ocr_i,
              ocr_matches, ocr_visuals, ocr_warnings>>
run_vars == <<upc, pdf_files, pdf_i, page_i, layout_results, run_log>>
hocr_vars == <<hpc, h_images, h_entry_id, h_page_number, hocr_results>>
more_vars == <<conv_vars, meta_vars, frame_vars, ocr_vars, run_vars, hocr_vars>>
vars == <<filter_vars, distance_vars, layout_vars, text_vars, size_vars,
          more_vars>>

\* the variables of a part of the program that a specification does not run
FilterIdle ==
    fpc = "idle" /\ bboxes = <<>> /\ result = <<>> /\ result2 = <<>>

DistanceIdle ==
    /\ dpc = "idle" /\ image_object = <<>> /\ text_object = <<>>
    /\ offset = <<>> /\ direction = "None" /\ dresult = "none"

LayoutIdle ==
    /\ lpc = "idle" /\ page = <<>> /\ layout_settings = <<>> /\ img_i = 0
    /\ bbox_matches = <<>> /\ visual = <<>> /\ visuals = <<>>
    /\ no_image_pages = <<>>

TextIdle ==
    tpc = "idle" /\ t_element = <<>> /\ t_keywords = <<>> /\ tresult = "none"

SizeIdle ==
    /\ spc = "idle" /\ size_bboxes = <<>> /\ s_min_width = <<>>
    /\ s_min_height = <<>> /\ s_aspect_ratio = <<>> /\ sresult = <<>>

ConvIdle ==
    /\ cpc = "idle" /\ c_quantity = 0 /\ c_dpi = <<>> /\ c_box = <<>>
    /\ cresult = <<>>

MetaIdle ==
    /\ mpc = 0 /\ m_visual = <<>> /\ m_metadata = <<>> /\ m_paths = <<>>
    /\ m_location = 0 /\ m_call = <<>>

FrameIdle ==
    /\ rpc = "idle" /\ r_given = <<>> /\ r_bboxes = <<>> /\ r_call = <<>>
    /\ r_output = <<>>

OcrIdle ==
    /\ opc = "idle" /\ ocr_settings = <<>> /\ ocr_results = <<>>
    /\ ocr_given = <<>> /\ ocr_texts = <<>> /\ ocr_i = 0 /\ ocr_matches = <<>>
    /\ ocr_visuals = <<>> /\ ocr_warnings = 0

RunIdle ==
    /\ upc = "idle" /\ pdf_files = <<>> /\ pdf_i = 0 /\ page_i = 0
    /\ layout_results = <<>> /\ run_log = <<>>

HocrIdle ==
    /\ hpc = "idle" /\ h_images = <<>> /\ h_entry_id = <<>>
    /\ h_page_number = <<>> /\ hocr_results = <<>>

MoreIdle ==
    ConvIdle /\ MetaIdle /\ FrameIdle /\ OcrIdle /\ RunIdle /\ HocrIdle

\* the parts modelled first, for the specifications of the later parts
first_vars ==
    <<filter_vars, distance_vars, layout_vars, text_vars, size_vars>>

FirstIdle ==
    FilterIdle /\ DistanceIdle /\ LayoutIdle /\ TextIdle /\ SizeIdle

----------------------------------------------------------------------------
(* Bounds *)

MaxCoord == 2       \* box corners lie on the grid 0..MaxCoord
MaxBoxes == 3       \* entries of an enumerated input mapping
MaxPos == 8         \* text box corners lie on the grid 0..MaxPos
MaxTextSide == 2    \* longest side of an enumerated text box
MaxOffset == 1      \* largest offset distance
MaxTexts == 2       \* text elements on a page
MaxImages == 1      \* images on a page

----------------------------------------------------------------------------
(* Python dict helpers *)

Keys(m) == {m[i].id : i \in DOMAIN m}

Values(m) == {m[i].box : i \in DOMAIN m}

HasKey(m, key) == \E i \in DOMAIN m : m[i].id = key

Lookup(m, key) == (CHOOSE e \in {m[i] : i \in DOMAIN m} : e.id = key).box

\* dict.pop(key) for a key that is present
Pop(m, key) == SelectSeq(m, LAMBDA e : e.id # key)

\* dict[key] = box for a key that is absent: appended in insertion order
SetNew(m, key, box) == Append(m, [id |-> key, box |-> box])

\* dict equality: same keys with the same values, order ignored
DictEq(m1, m2) == {m1[i] : i \in DOMAIN m1} = {m2[i] : i \in DOMAIN m2}

----------------------------------------------------------------------------
(* ocr.py: filter_bbox_contained *)

\* "Check if bbox1 is contained in bbox2"
is_contained(bbox1, bbox2) ==
    /\ bbox2[1] <= bbox1[1]
    /\ bbox2[2] <= bbox1[2]
    /\ bbox2[3] >= bbox1[3]
    /\ bbox2[4] >= bbox1[4]

\* mutant: duplicates are not removed before the comparisons
unique_bboxes_keepall(m) == m

\* the first loop: keeps the first entry of every group of equal boxes
RECURSIVE unique_loop(_, _, _)
unique_loop(m, k, acc) ==
    IF k > Len(m) THEN acc
    ELSE IF m[k].box \in Values(acc)
         THEN unique_loop(m, k + 1, acc)
         ELSE unique_loop(m, k + 1, SetNew(acc, m[k].id, m[k].box))

unique_bboxes(m) == unique_loop(m, 1, <<>>)

\* itertools.permutations(unique_bboxes, 2): ordered pairs of distinct keys,
\* in lexicographic order of positions
comparisons(u) ==
    LET n == Len(u)
    IN  [p \in 1..(n * (n - 1)) |->
            LET i == ((p - 1) \div (n - 1)) + 1
                r == ((p - 1) % (n - 1)) + 1
                j == IF r < i THEN r ELSE r + 1
            IN  <<u[i].id, u[j].id>>]

\* mutant: a KeyError of pop is ignored, the box stays removed
compare_step_noreadd(u, acc, comparison) ==
    IF is_contained(Lookup(u, comparison[1]), Lookup(u, comparison[2]))
    THEN Pop(acc, comparison[1])
    ELSE acc

\* mutant: the container, not the contained box, is removed
compare_step_swapped(u, acc, comparison) ==
    IF is_contained(Lookup(u, comparison[1]), Lookup(u, comparison[2]))
    THEN IF HasKey(acc, comparison[2])
         THEN Pop(acc, comparison[2])
         ELSE SetNew(acc, comparison[2], Lookup(u, comparison[2]))
    ELSE acc

\* one iteration of "for comparison in comparisons": pop the contained box,
\* and on KeyError (already popped) put it back
compare_step(u, acc, comparison) ==
    IF is_contained(Lookup(u, comparison[1]), Lookup(u, comparison[2]))
    THEN IF HasKey(acc, comparison[1])
         THEN Pop(acc, comparison[1])
         ELSE SetNew(acc, comparison[1], Lookup(u, comparison[1]))
    ELSE acc

RECURSIVE compare_loop(_, _, _, _)
compare_loop(u, comps, k, acc) ==
    IF k > Len(comps) THEN acc
    ELSE compare_loop(u, comps, k + 1, compare_step(u, acc, comps[k]))

filter_bbox_contained(m) ==
    IF Len(m) = 0 \/ Len(m) = 1 THEN m
    ELSE LET unique == unique_bboxes(m)
         IN  compare_loop(unique, comparisons(unique), 1, unique)

----------------------------------------------------------------------------
(* Inputs of the region filters *)

GridBoxes ==
    {b \in (0..MaxCoord) \X (0..MaxCoord) \X (0..MaxCoord) \X (0..MaxCoord) :
        b[1] < b[3] /\ b[2] < b[4]}

MappingOf(boxes) == [i \in DOMAIN boxes |-> [id |-> i, box |-> boxes[i]]]

GridMappings ==
    {MappingOf(s) : s \in UNION {[1..n -> GridBoxes] : n \in 0..MaxBoxes}}

\* tests/test_ocr.py, fixture boxes_inside_boxes (id1..id9) and the same
\* without the two extra copies of id2
BoxA == <<0, 0, 100, 100>>
BoxB == <<200, 300, 350, 400>>
BoxC == <<10, 20, 90, 90>>
BoxD == <<10, 10, 90, 90>>
BoxE == <<10, 10, 90, 90>>
BoxF == <<10, 10, 15, 20>>
BoxG == <<1000, 1000, 1200, 1200>>

boxes_inside_boxes ==
    MappingOf(<<BoxA, BoxB, BoxC, BoxD, BoxE, BoxF, BoxG, BoxB, BoxB>>)

boxes_inside_boxes7 ==
    MappingOf(<<BoxA, BoxB, BoxC, BoxD, BoxE, BoxF, BoxG>>)

\* tests/test_ocr.py, fixture overlaping_boxes
overlaping_boxes ==
    MappingOf(<<(<<0, 0, 100, 210>>), (<<50, 200, 350, 400>>),
                (<<1000, 1000, 1200, 1200>>)>>)

FilterInputs ==
    GridMappings \cup {boxes_inside_boxes, boxes_inside_boxes7, overlaping_boxes}

----------------------------------------------------------------------------
(* Specification SpecFilter: the containment filter applied once and twice *)

InitFilter ==
    /\ fpc = "start"
    /\ bboxes \in FilterInputs
    /\ result = <<>>
    /\ result2 = <<>>
    /\ DistanceIdle
    /\ LayoutIdle
    /\ TextIdle
    /\ SizeIdle
    /\ MoreIdle

\* result = filter_bbox_contained(bboxes)
CallFilterContained ==
    /\ fpc = "start"
    /\ result' = filter_bbox_contained(bboxes)
    /\ fpc' = "once"
    /\ UNCHANGED <<bboxes, result2, distance_vars, layout_vars, text_vars,
                   size_vars, more_vars>>

\* result2 = filter_bbox_contained(result)
CallFilterContainedAgain ==
    /\ fpc = "once"
    /\ result2' = filter_bbox_contained(result)
    /\ fpc' = "twice"
    /\ UNCHANGED <<bboxes, result, distance_vars, layout_vars, text_vars,
                   size_vars, more_vars>>

NextFilter == CallFilterContained \/ CallFilterContainedAgain

SpecFilter == InitFilter /\ [][NextFilter]_vars

----------------------------------------------------------------------------
(* Claims about filter_bbox_contained (specification SpecFilter) *)

\* full enclosure as the specification words it: x0'<=x0, y0'<=y0, x1'>=x1, y1'>=y1
Encloses(outer, inner) ==
    /\ outer[1] <= inner[1] /\ outer[2] <= inner[2]
    /\ outer[3] >= inner[3] /\ outer[4] >= inner[4]

\* input entry i has no encloser with different coordinates among the input
Unenclosed(m, i) ==
    \A j \in DOMAIN m : m[j].box # m[i].box => ~Encloses(m[j].box, m[i].box)

\* input entry i is the first of the input with its coordinates
FirstOfItsBox(m, i) == \A j \in 1..(i - 1) : m[j].box # m[i].box

\* C2: no region of the output is fully enclosed by an input region with
\* different coordinates, however many input regions enclose it.
C2_NoEnclosedRegionReturned ==
    fpc = "once" =>
        \A k \in DOMAIN result : \A j \in DOMAIN bboxes :
            bboxes[j].box # result[k].box =>
                ~Encloses(bboxes[j].box, result[k].box)

\* C3: the containment filter is idempotent, a second application to its
\* own output returns the same mapping.
C3_Idempotent ==
    fpc = "twice" => DictEq(result2, result)

ExpectedTestResult ==
    {[id |-> 1, box |-> BoxA], [id |-> 2, box |-> BoxB],
     [id |-> 7, box |-> BoxG], [id |-> 3, box |-> BoxC],
     [id |-> 6, box |-> BoxF]}

\* C4: on the boxes A..G of the test fixture, with or without the extra
\* copies of B, the filter returns exactly A, B, G, C and F, unchanged.
C4_TestFixtureResult ==
    (fpc = "once" /\ bboxes \in {boxes_inside_boxes, boxes_inside_boxes7}) =>
        {result[k] : k \in DOMAIN result} = ExpectedTestResult

C4_Witness ==
    /\ fpc = "once"
    /\ bboxes = boxes_inside_boxes
    /\ Len(result) = 5
    /\ HasKey(result, 3) /\ HasKey(result, 6) /\ ~HasKey(result, 4)

\* C5: every input region absent from the output is fully enclosed by some
\* other region that is present in the output.
C5_RemovedHasSurvivingEncloser ==
    fpc = "once" =>
        \A i \in DOMAIN bboxes :
            ~HasKey(result, bboxes[i].id) =>
                \E k \in DOMAIN result :
                    /\ result[k].id # bboxes[i].id
                    /\ Encloses(result[k].box, bboxes[i].box)

C5_Witness ==
    /\ fpc = "once"
    /\ \E i, j \in DOMAIN bboxes :
        /\ bboxes[i].box # bboxes[j].box
        /\ Encloses(bboxes[j].box, bboxes[i].box)
        /\ ~HasKey(result, bboxes[i].id)
        /\ HasKey(result, bboxes[j].id)

\* C6: a region that no input region with different coordinates encloses is
\* kept with its coordinates if its coordinates are unique; of a group of
\* such regions with identical coordinates exactly the first in input order
\* survives; the output never holds two entries with equal coordinates.
C6_UnenclosedKeptOncePerBox ==
    fpc = "once" =>
        /\ \A i \in DOMAIN bboxes :
            Unenclosed(bboxes, i) =>
                /\ HasKey(result, bboxes[i].id) <=> FirstOfItsBox(bboxes, i)
                /\ HasKey(result, bboxes[i].id) =>
                        Lookup(result, bboxes[i].id) = bboxes[i].box
        /\ \A k, l \in DOMAIN result :
            k # l => result[k].box # result[l].box

C6_Witness ==
    /\ fpc = "once"
    /\ \E i, j, k \in DOMAIN bboxes :
        /\ i < j
        /\ bboxes[i].box = bboxes[j].box
        /\ Unenclosed(bboxes, i)
        /\ HasKey(result, bboxes[i].id) /\ ~HasKey(result, bboxes[j].id)
        \* an overlapping box, neither enclosing the other, also survives
        /\ ~Encloses(bboxes[i].box, bboxes[k].box)
        /\ ~Encloses(bboxes[k].box, bboxes[i].box)
        /\ bboxes[k].box[1] < bboxes[i].box[3]
        /\ bboxes[i].box[1] < bboxes[k].box[3]
        /\ bboxes[k].box[2] < bboxes[i].box[4]
        /\ bboxes[i].box[2] < bboxes[k].box[4]
        /\ HasKey(result, bboxes[k].id)

----------------------------------------------------------------------------
(* Numbers *)

(* The lengths are Python floats: IEEE 754 doubles, every operation rounded *)
(* to the nearest number of 53 significant bits, ties to the even one.  A   *)
(* natural number is the sequence of its digits in base 2^15, the lowest    *)
(* first and the highest not zero, since the checker's integers have 32     *)
(* bits.  A float is [neg, mag, exp]: its magnitude is mag * 2^(15 exp),    *)
(* mag a natural number whose lowest digit is not zero; zero is the float   *)
(* of magnitude <<>> and exp 0.  The exponent is not limited: the lengths   *)
(* of a page are far from the largest and the smallest double.              *)
LimbBase == 32768

\* the digits a quotient is computed to before it is rounded
DivLimbs == 5

RECURSIVE NatTrim(_)
NatTrim(a) ==
    IF a = <<>> THEN a
    ELSE IF a[Len(a)] = 0 THEN NatTrim(SubSeq(a, 1, Len(a) - 1))
    ELSE a

Limb(a, i) == IF i <= Len(a) THEN a[i] ELSE 0

\* a natural number below 2^30
NatOfInt(n) ==
    IF n = 0 THEN <<>>
    ELSE IF n < LimbBase THEN <<n>>
    ELSE <<n % LimbBase, n \div LimbBase>>

RECURSIVE NatAddFrom(_, _, _, _)
NatAddFrom(a, b, i, carry) ==
    IF i > Len(a) /\ i > Len(b)
    THEN IF carry = 0 THEN <<>> ELSE <<carry>>
    ELSE LET s == Limb(a, i) + Limb(b, i) + carry
         IN  <<s % LimbBase>> \o NatAddFrom(a, b, i + 1, s \div LimbBase)

NatAdd(a, b) ==
    IF a = <<>> THEN b ELSE IF b = <<>> THEN a ELSE NatAddFrom(a, b, 1, 0)

\* a - b for a >= b
RECURSIVE NatSubFrom(_, _, _, _)
NatSubFrom(a, b, i, borrow) ==
    IF i > Len(a) THEN <<>>
    ELSE LET s == a[i] - Limb(b, i) - borrow
         IN  <<(s + LimbBase) % LimbBase>>
             \o NatSubFrom(a, b, i + 1, IF s < 0 THEN 1 ELSE 0)

NatSub(a, b) == NatTrim(NatSubFrom(a, b, 1, 0))

\* -1, 0 or 1 as a is below, equal to or above b
RECURSIVE NatCmpFrom(_, _, _)
NatCmpFrom(a, b, i) ==
    IF i = 0 THEN 0
    ELSE IF a[i] < b[i] THEN -1
    ELSE IF a[i] > b[i] THEN 1
    ELSE NatCmpFrom(a, b, i - 1)

NatCmp(a, b) ==
    IF Len(a) < Len(b) THEN -1
    ELSE IF Len(a) > Len(b) THEN 1
    ELSE NatCmpFrom(a, b, Len(a))

\* a * k for 0 <= k < 2^15
RECURSIVE NatMulSmallFrom(_, _, _, _)
NatMulSmallFrom(a, k, i, carry) ==
    IF i > Len(a) THEN IF carry = 0 THEN <<>> ELSE <<carry>>
    ELSE LET s == a[i] * k + carry
         IN  <<s % LimbBase>>
             \o NatMulSmallFrom(a, k, i + 1, s \div LimbBase)

NatMulSmall(a, k) == IF k = 0 THEN <<>> ELSE NatMulSmallFrom(a, k, 1, 0)

\* a * 2^(15 n)
NatShiftLimbs(a, n) == IF a = <<>> THEN a ELSE [i \in 1..n |-> 0] \o a

\* the sum of the a * b[k] * 2^(15 (k - 1)) for k from i
RECURSIVE NatMulFrom(_, _, _)
NatMulFrom(a, b, i) ==
    IF i > Len(b) THEN <<>>
    ELSE IF b[i] = 0 THEN NatMulFrom(a, b, i + 1)
    ELSE NatAdd(NatShiftLimbs(NatMulSmall(a, b[i]), i - 1),
                NatMulFrom(a, b, i + 1))

NonzeroLimbs(a) == Cardinality({i \in DOMAIN a : a[i] # 0})

\* a * b, digit by digit of the one with fewer digits that are not zero
NatMul(a, b) ==
    IF NonzeroLimbs(a) < NonzeroLimbs(b) THEN NatMulFrom(b, a, 1)
    ELSE NatMulFrom(a, b, 1)

\* quotient and remainder of a by k, for 0 < k <= 2^15; the digits from the
\* highest, position i, down
RECURSIVE NatDivSmallFrom(_, _, _, _)
NatDivSmallFrom(a, k, i, rem) ==
    IF i = 0 THEN [q |-> <<>>, r |-> rem]
    ELSE LET cur == rem * LimbBase + a[i]
             rest == NatDivSmallFrom(a, k, i - 1, cur % k)
         IN  [q |-> Append(rest.q, cur \div k), r |-> rest.r]

NatDivSmall(a, k) ==
    LET d == NatDivSmallFrom(a, k, Len(a), 0)
    IN  [q |-> NatTrim(d.q), r |-> d.r]

\* the number of bits of a digit
RECURSIVE BitLenLimb(_)
BitLenLimb(x) ==
    IF x >= 4096 THEN 12 + BitLenLimb(x \div 4096)
    ELSE IF x >= 256 THEN 8 + BitLenLimb(x \div 256)
    ELSE IF x >= 16 THEN 4 + BitLenLimb(x \div 16)
    ELSE IF x >= 8 THEN 4
    ELSE IF x >= 4 THEN 3
    ELSE IF x >= 2 THEN 2
    ELSE x

\* the number of bits of a
NatBitLen(a) ==
    IF a = <<>> THEN 0 ELSE 15 * (Len(a) - 1) + BitLenLimb(a[Len(a)])

\* a mod 2^j
NatLowBits(a, j) ==
    NatTrim(SubSeq(a, 1, j \div 15)
            \o <<Limb(a, (j \div 15) + 1) % (2 ^ (j % 15))>>)

\* a - a mod 2^j, for a of more than j bits
NatClearLowBits(a, j) ==
    LET k == (j \div 15) + 1
    IN  [i \in 1..(k - 1) |-> 0]
        \o <<a[k] - (a[k] % (2 ^ (j % 15)))>>
        \o SubSeq(a, k + 1, Len(a))

\* 2^j
NatPow2(j) == [i \in 1..(j \div 15) |-> 0] \o <<2 ^ (j % 15)>>

\* the bit of a of weight 2^j
NatBit(a, j) == (Limb(a, (j \div 15) + 1) \div (2 ^ (j % 15))) % 2

\* a without its j low bits, rounded up when they are more than half of
\* 2^j (c > 0) or exactly half (c = 0) with a tie that goes up
RoundedAt(a, j, c, inexact) ==
    IF c > 0 \/ (c = 0 /\ (inexact \/ NatBit(a, j) = 1))
    THEN NatAdd(NatClearLowBits(a, j), NatPow2(j))
    ELSE NatClearLowBits(a, j)

\* a rounded to a multiple of 2^j
DropLowBits(a, j, inexact) ==
    IF j <= 0 THEN a
    ELSE RoundedAt(a, j, NatCmp(NatLowBits(a, j), NatPow2(j - 1)), inexact)

\* a rounded to 53 significant bits, to the nearest and in a tie to the
\* even one; inexact tells that a stands for a number slightly above it
Round53(a, inexact) == DropLowBits(a, NatBitLen(a) - 53, inexact)

\* the number of zero digits at the low end of a, for a not zero
RECURSIVE LowZeros(_)
LowZeros(a) == IF a[1] # 0 THEN 0 ELSE 1 + LowZeros(Tail(a))

\* mag * 2^(15 exp) with the z zero digits at the low end of mag taken out
Normal(neg, mag, exp, z) ==
    [neg |-> neg, mag |-> SubSeq(mag, z + 1, Len(mag)), exp |-> exp + z]

\* the float of sign neg and magnitude mag * 2^(15 exp)
Flt(neg, mag, exp) ==
    IF mag = <<>> THEN [neg |-> FALSE, mag |-> <<>>, exp |-> 0]
    ELSE IF mag[1] # 0 THEN [neg |-> neg, mag |-> mag, exp |-> exp]
    ELSE Normal(neg, mag, exp, LowZeros(mag))

\* float(n) for an integer n, |n| < 2^30
FltOfInt(n) == Flt(n < 0, NatOfInt(IF n < 0 THEN -n ELSE n), 0)

FltNeg(a) == Flt(~a.neg, a.mag, a.exp)

FltAbs(a) == Flt(FALSE, a.mag, a.exp)

\* the magnitude of a in units of 2^(15 e), for e <= a.exp
Mag(a, e) == IF a.exp = e THEN a.mag ELSE NatShiftLimbs(a.mag, a.exp - e)

MinExp(a, b) == IF a.exp < b.exp THEN a.exp ELSE b.exp

\* the sum of two numbers of magnitudes am and bm in units of 2^(15 e): the
\* sign of the one of larger magnitude, the magnitudes added for equal signs
\* and subtracted otherwise
ExactSum(aneg, am, bneg, bm, e) ==
    Flt(IF aneg = bneg \/ NatCmp(am, bm) >= 0 THEN aneg ELSE bneg,
        IF aneg = bneg THEN NatAdd(am, bm)
        ELSE IF NatCmp(am, bm) >= 0 THEN NatSub(am, bm)
        ELSE NatSub(bm, am),
        e)

\* a + b without rounding
ExactAdd(a, b) ==
    ExactSum(a.neg, Mag(a, MinExp(a, b)), b.neg, Mag(b, MinExp(a, b)),
             MinExp(a, b))

\* a * b without rounding
ExactMul(a, b) == Flt(a.neg # b.neg, NatMul(a.mag, b.mag), a.exp + b.exp)

\* the float nearest to the number x
FltRounded(x) == Flt(x.neg, Round53(x.mag, FALSE), x.exp)

\* a + b
FltAdd(a, b) == FltRounded(ExactAdd(a, b))

\* a - b
FltSub(a, b) == FltAdd(a, FltNeg(b))

\* a * b
FltMul(a, b) == FltRounded(ExactMul(a, b))

\* the float nearest to the quotient d.q, which has more than 53 bits, in
\* units of 2^(15 exp); a remainder d.r tells that the number lies above d.q
Quotient(neg, d, exp) == Flt(neg, Round53(d.q, d.r # 0), exp)

\* a / k for an integer k, 0 < k <= 2^15
FltDivInt(a, k) ==
    Quotient(a.neg, NatDivSmall(NatShiftLimbs(a.mag, DivLimbs), k),
             a.exp - DivLimbs)

FltLT(a, b) ==
    IF a.neg # b.neg THEN a.neg
    ELSE IF a.neg
         THEN NatCmp(Mag(a, MinExp(a, b)), Mag(b, MinExp(a, b))) > 0
         ELSE NatCmp(Mag(a, MinExp(a, b)), Mag(b, MinExp(a, b))) < 0

FltLE(a, b) == a = b \/ FltLT(a, b)

FltMin(a, b) == IF FltLE(a, b) THEN a ELSE b

FltMax(a, b) == IF FltLE(a, b) THEN b ELSE a

FltCoords(coords) ==
    <<FltOfInt(coords[1]), FltOfInt(coords[2]),
      FltOfInt(coords[3]), FltOfInt(coords[4])>>

----------------------------------------------------------------------------
(* utils.py: unit conversion *)

\* the float of the literal 2.8346456693, 0x1.6ad5ab56b21dbp+1
MmToPoint == Flt(FALSE, <<13824, 11399, 21931, 27349, 2>>, -4)

\* mutant: millimetres are used as if they were points
convert_mm_to_point_unconverted(quantity) == FltOfInt(quantity)

\* quantity * 2.8346456693, for an integer quantity
convert_mm_to_point(quantity) == FltMul(FltOfInt(quantity), MmToPoint)

\* quantity / dpi * 72, for an integer quantity and 0 < dpi <= 2^15
convert_dpi_to_point(quantity, dpi) ==
    FltMul(FltDivInt(FltOfInt(quantity), dpi), FltOfInt(72))

----------------------------------------------------------------------------
(* captions.py: BoundingBox and Offset *)

(* An image or text argument is a record [kind, coords, unit, dpi]:         *)
(*   kind "BoundingBox": unit is "mm", "pt" or "dpi" (an integer unit, the  *)
(*                       resolution is the field dpi);                      *)
(*   kind "LT":          a pdfminer layout element, whose bbox attribute is *)
(*                       the tuple coords, in points.                       *)
BoundingBox(coords, unit, dpi) ==
    [kind |-> "BoundingBox", coords |-> coords, unit |-> unit, dpi |-> dpi]

LTElement(coords) ==
    [kind |-> "LT", coords |-> coords, unit |-> "pt", dpi |-> 0]

\* mutant: the coordinates are returned as they are, whatever the unit
bbox_unconverted(self) == FltCoords(self.coords)

\* lines 73 and 79-80: tuple(convert(coord) for coord in self.coords), from
\* the k-th coordinate on
RECURSIVE converted_coords(_, _)
converted_coords(self, k) ==
    IF k > Len(self.coords) THEN <<>>
    ELSE <<IF self.unit = "mm" THEN convert_mm_to_point(self.coords[k])
           ELSE convert_dpi_to_point(self.coords[k], self.dpi)>>
         \o converted_coords(self, k + 1)

\* BoundingBox.bbox(): the coordinates in points
bbox(self) ==
    IF self.unit = "pt" THEN FltCoords(self.coords)
    ELSE converted_coords(self, 1)

\* BoundingBox.bbox_px(), for a unit that is an integer
bbox_px(self) == FltCoords(self.coords)

\* Offset(distance, unit), unit "mm" or "px"
Offset(distance, unit) == [distance |-> distance, unit |-> unit]

\* Offset.__post_init__ raises ValueError for any other unit
offset_unit_rejected(unit) == unit \notin {"mm", "px"}

----------------------------------------------------------------------------
(* shapely: convex polygons and their intersection *)

(* Polygon(shell, holes): rings are sequences of vertices <<x, y>>, the     *)
(* first repeated at the end.  The rings built by find_caption_by_distance  *)
(* from a well-formed box are convex; a hole is the image box, a rectangle  *)
(* with sides parallel to the axes.  The predicate is decided on the float  *)
(* coordinates without rounding.                                            *)
Polygon(shell, holes) == [shell |-> shell, holes |-> holes]

\* the rectangle e extended to hold the vertices of ring from the k-th on
RECURSIVE Extended(_, _, _)
Extended(e, ring, k) ==
    IF k > Len(ring) THEN e
    ELSE Extended(<<FltMin(e[1], ring[k][1]), FltMin(e[2], ring[k][2]),
                    FltMax(e[3], ring[k][1]), FltMax(e[4], ring[k][2])>>,
                  ring, k + 1)

\* the smallest rectangle with sides parallel to the axes that holds ring
Envelope(ring) ==
    Extended(<<ring[1][1], ring[1][2], ring[1][1], ring[1][2]>>, ring, 2)

\* the ring of five vertices is a rectangle with sides parallel to the axes
IsRectangle(ring) ==
    \/ /\ ring[1][2] = ring[2][2] /\ ring[2][1] = ring[3][1]
       /\ ring[3][2] = ring[4][2] /\ ring[4][1] = ring[1][1]
    \/ /\ ring[1][1] = ring[2][1] /\ ring[2][2] = ring[3][2]
       /\ ring[3][1] = ring[4][1] /\ ring[4][2] = ring[1][2]

\* a - b without rounding
ExactSub(a, b) == ExactAdd(a, FltNeg(b))

\* 1, 0 or -1 as a is above, equal to or below b
Compare(a, b) == IF a = b THEN 0 ELSE IF FltLT(a, b) THEN -1 ELSE 1

\* the sign of qx * vy - qy * vx, the products without rounding
SignOfCross(qx, qy, vx, vy) == Compare(ExactMul(qx, vy), ExactMul(qy, vx))

\* 1, 0 or -1 as the point v lies left of, on or right of the line from p
\* to q: the sign of (q - p) x (v - p)
Side(p, q, v) ==
    SignOfCross(ExactSub(q[1], p[1]), ExactSub(q[2], p[2]),
                ExactSub(v[1], p[1]), ExactSub(v[2], p[2]))

\* the sides of the line from p to q on which the vertices of ring lie
Sides(p, q, ring) == {Side(p, q, ring[k]) : k \in 1..(Len(ring) - 1)}

\* every vertex of the other ring lies strictly on one side (far) and no
\* vertex of the edge's own ring on that side (own)
Separates(own, far) ==
    \/ far = {1} /\ 1 \notin own
    \/ far = {-1} /\ -1 \notin own

\* an edge of ring has ring on one side and every vertex of other strictly
\* on the other side
HasSeparatingEdge(ring, other) ==
    \E i \in 1..(Len(ring) - 1) :
        Separates(Sides(ring[i], ring[i + 1], ring),
                  Sides(ring[i], ring[i + 1], other))

\* two convex rings with an interior share a point: no edge of either
\* separates them.  For two rectangles with sides parallel to the axes the
\* envelopes decide.
RingsIntersect(ring, other) ==
    \/ IsRectangle(ring) /\ IsRectangle(other)
    \/ \A pair \in {<<ring, other>>, <<other, ring>>} :
            ~HasSeparatingEdge(pair[1], pair[2])

\* the closed rectangles a and b share a point
EnvelopesIntersect(a, b) ==
    /\ FltLE(a[1], b[3]) /\ FltLE(b[1], a[3])
    /\ FltLE(a[2], b[4]) /\ FltLE(b[2], a[4])

\* the rectangle b lies in the open interior of the rectangle h
StrictlyInside(b, h) ==
    /\ FltLT(h[1], b[1]) /\ FltLT(b[3], h[3])
    /\ FltLT(h[2], b[2]) /\ FltLT(b[4], h[4])

\* search_area.intersects(text_bbox): the closed regions share a point.
\* The regions share none when the shells are apart or when the other
\* polygon, a rectangle, lies in the open interior of a hole.
intersects(area, other) ==
    LET a == Envelope(area.shell)
        b == Envelope(other.shell)
    IN  /\ EnvelopesIntersect(a, b)
        /\ RingsIntersect(area.shell, other.shell)
        /\ \A k \in DOMAIN area.holes :
                ~StrictlyInside(b, Envelope(area.holes[k]))

----------------------------------------------------------------------------
(* captions.py: find_caption_by_distance *)

\* the directions that pass the check of lines 199-202
accepted_directions ==
    {"right", "left", "down", "up", "right-down", "left-up", "all", "None"}

\* lines 196-197 and 204-205
offset_distance(off) ==
    IF off.unit = "mm" THEN convert_mm_to_point(off.distance)
    ELSE FltOfInt(off.distance)

\* lines 193 and 207-227: the image coordinates the search area is built from
image_coords(image) ==
    IF image.kind = "BoundingBox"
    THEN IF image.unit \in {"mm", "pt"} THEN bbox(image) ELSE bbox_px(image)
    ELSE FltCoords(image.coords)

\* mutant: up and down are never exchanged
inverted_direction_never(image, dir) == dir

\* lines 211-223: up and down are exchanged for an image in pixels
inverted_direction(image, dir) ==
    IF image.kind = "BoundingBox" /\ image.unit = "dpi"
    THEN IF dir = "down" THEN "up"
         ELSE IF dir = "up" THEN "down"
         ELSE dir
    ELSE dir

\* lines 194 and 229-237
text_coords(text) ==
    IF text.kind = "BoundingBox"
    THEN IF text.unit \in {"mm", "pt"} THEN bbox(text) ELSE bbox_px(text)
    ELSE FltCoords(text.coords)

\* lines 239-240
width_of(c) == FltAbs(FltSub(c[3], c[1]))
height_of(c) == FltAbs(FltSub(c[4], c[2]))

\* mutant: the image box is not cut out of the search area
search_area_all_nohole(c, d) ==
    Polygon(<< <<FltSub(c[1], d), FltSub(c[2], d)>>,
               <<FltAdd(c[3], d), FltSub(c[2], d)>>,
               <<FltAdd(c[3], d), FltAdd(c[4], d)>>,
               <<FltSub(c[1], d), FltAdd(c[4], d)>>,
               <<FltSub(c[1], d), FltSub(c[2], d)>> >>,
            << >>)

\* lines 242-277
search_area_all(c, d) ==
    Polygon(<< <<FltSub(c[1], d), FltSub(c[2], d)>>,
               <<FltAdd(c[3], d), FltSub(c[2], d)>>,
               <<FltAdd(c[3], d), FltAdd(c[4], d)>>,
               <<FltSub(c[1], d), FltAdd(c[4], d)>>,
               <<FltSub(c[1], d), FltSub(c[2], d)>> >>,
            << << <<c[1], c[2]>>, <<c[3], c[2]>>, <<c[3], c[4]>>,
                  <<c[1], c[4]>>, <<c[1], c[2]>> >> >>)

\* lines 279-302
search_area_up(c, d) ==
    Polygon(<< <<c[1], FltAdd(c[2], height_of(c))>>,
               <<c[3], FltAdd(c[2], height_of(c))>>,
               <<c[3], FltAdd(c[4], d)>>,
               <<c[1], FltAdd(c[4], d)>>,
               <<c[1], FltAdd(c[2], height_of(c))>> >>,
            << >>)

\* mutant: the band starts at the top edge of the image and covers the image
search_area_down_overimage(c, d) ==
    Polygon(<< <<c[1], c[4]>>,
               <<c[3], c[4]>>,
               <<c[3], FltSub(FltSub(c[4], height_of(c)), d)>>,
               <<c[1], FltSub(c[2], d)>>,
               <<c[1], c[4]>> >>,
            << >>)

\* lines 304-326
search_area_down(c, d) ==
    Polygon(<< <<c[1], c[2]>>,
               <<c[3], FltSub(c[4], height_of(c))>>,
               <<c[3], FltSub(FltSub(c[4], height_of(c)), d)>>,
               <<c[1], FltSub(c[2], d)>>,
               <<c[1], c[2]>> >>,
            << >>)

\* lines 328-348
search_area_right(c, d) ==
    Polygon(<< <<FltAdd(c[1], width_of(c)), c[2]>>,
               <<FltAdd(FltAdd(c[3], width_of(c)), d), c[2]>>,
               <<FltAdd(FltAdd(c[3], width_of(c)), d), c[4]>>,
               <<FltAdd(c[1], width_of(c)), c[4]>>,
               <<FltAdd(c[1], width_of(c)), c[2]>> >>,
            << >>)

\* lines 350-371
search_area_left(c, d) ==
    Polygon(<< <<FltSub(c[1], d), c[2]>>,
               <<FltSub(c[3], width_of(c)), c[2]>>,
               <<FltSub(c[3], width_of(c)), c[4]>>,
               <<FltSub(c[1], d), c[4]>>,
               <<FltSub(c[1], d), c[2]>> >>,
            << >>)

\* lines 430-436
text_bbox(t) ==
    Polygon(<< <<t[1], t[2]>>, <<t[3], t[2]>>, <<t[3], t[4]>>,
               <<t[1], t[4]>>, <<t[1], t[2]>> >>,
            << >>)

\* The directions for which one of the blocks of lines 242-371 assigns
\* search_area.  The blocks for "down-right" and "up-left" (lines 373-428)
\* cannot run: both values are rejected at line 199.
built_directions == {"None", "all", "up", "down", "right", "left"}

search_area(dir, c, d) ==
    IF dir \in {"None", "all"} THEN search_area_all(c, d)
    ELSE IF dir = "up" THEN search_area_up(c, d)
    ELSE IF dir = "down" THEN search_area_down(c, d)
    ELSE IF dir = "right" THEN search_area_right(c, d)
    ELSE search_area_left(c, d)

\* What a call does: "match" (text_object is returned), "False", or the
\* exception that leaves the function.
find_caption_by_distance(image, text, off, dir) ==
    IF dir \notin accepted_directions THEN "ValueError"
    ELSE LET dir2 == inverted_direction(image, dir)
         IN  IF dir2 \notin built_directions
             THEN "UnboundLocalError"   \* search_area was never assigned
             ELSE IF intersects(search_area(dir2, image_coords(image),
                                            offset_distance(off)),
                                text_bbox(text_coords(text)))
                  THEN "match"
                  ELSE "False"

----------------------------------------------------------------------------
(* Specification SpecDistance: one call of find_caption_by_distance *)

\* the resolution of the BoundingBox fixture of tests/test_captions.py
DPI == 200

\* a small and a large well-formed image box
ImageBoxes == {<<3, 3, 4, 4>>, <<2, 2, 5, 5>>}

TextBoxes ==
    {b \in (0..MaxPos) \X (0..MaxPos) \X (0..MaxPos) \X (0..MaxPos) :
        /\ b[1] < b[3] /\ b[3] - b[1] <= MaxTextSide
        /\ b[2] < b[4] /\ b[4] - b[2] <= MaxTextSide}

ImageObjects ==
    UNION {{LTElement(b), BoundingBox(b, "pt", 0), BoundingBox(b, "mm", 0),
            BoundingBox(b, "dpi", DPI)} : b \in ImageBoxes}

TextObjects ==
    UNION {{LTElement(b), BoundingBox(b, "mm", 0),
            BoundingBox(b, "dpi", DPI)} : b \in TextBoxes}

Offsets == {Offset(n, u) : n \in 1..MaxOffset, u \in {"mm", "px"}}

\* the values the code or its documentation name, and one unknown value
Directions ==
    accepted_directions \cup {"up-left", "down-right", "north"}

InitDistance ==
    /\ dpc = "start"
    /\ image_object \in ImageObjects
    /\ text_object \in TextObjects
    /\ offset \in Offsets
    /\ direction \in Directions
    /\ dresult = "none"
    /\ FilterIdle
    /\ LayoutIdle
    /\ TextIdle
    /\ SizeIdle
    /\ MoreIdle

CallFindCaptionByDistance ==
    /\ dpc = "start"
    /\ dresult' = find_caption_by_distance(image_object, text_object,
                                           offset, direction)
    /\ dpc' = "done"
    /\ UNCHANGED <<image_object, text_object, offset, direction, filter_vars,
                   layout_vars, text_vars, size_vars, more_vars>>

NextDistance == CallFindCaptionByDistance

SpecDistance == InitDistance /\ [][NextDistance]_vars

----------------------------------------------------------------------------
(* Claims about find_caption_by_distance (specification SpecDistance) *)

\* the seven directions of the specification, and none
SpecDirections ==
    {"up", "down", "left", "right", "up-left", "down-right", "all", "None"}

\* the point <<x, y>> lies in the closed rectangle r = <<x0, y0, x1, y1>>
InRect(x, y, r) ==
    /\ FltLE(r[1], x) /\ FltLE(x, r[3])
    /\ FltLE(r[2], y) /\ FltLE(y, r[4])

\* the point lies in the open interior of r
InInterior(x, y, r) ==
    /\ FltLT(r[1], x) /\ FltLT(x, r[3])
    /\ FltLT(r[2], y) /\ FltLT(y, r[4])

\* Two closed rectangles share a point iff they share one whose coordinates
\* are corner coordinates of the two.
SharePoint(r1, r2) ==
    \E x \in {r1[1], r1[3], r2[1], r2[3]}, y \in {r1[2], r1[4], r2[2], r2[4]} :
        InRect(x, y, r1) /\ InRect(x, y, r2)

\* the image and text boxes in the coordinates the comparison is made in
ImageRect == image_coords(image_object)
TextRect == text_coords(text_object)

\* the offset as a length: millimetres are taken to points
OffsetLength ==
    IF offset.unit = "mm" THEN convert_mm_to_point(offset.distance)
    ELSE FltOfInt(offset.distance)

IsPixelImage ==
    image_object.kind = "BoundingBox" /\ image_object.unit = "dpi"

\* the offset is expressed in the unit of the image coordinates
OffsetInImageUnit == (offset.unit = "px") <=> IsPixelImage

\* C7: the invalid-argument error is raised exactly for a direction outside
\* up, down, left, right, up-left, down-right, all, None; for these eight
\* the call returns the text region or False.
C7_DirectionValidation ==
    dpc = "done" =>
        /\ dresult = "ValueError" <=> direction \notin SpecDirections
        /\ direction \in SpecDirections => dresult \in {"match", "False"}

BandLeft ==
    LET c == ImageRect
    IN  <<FltSub(c[1], OffsetLength), c[2], c[1], c[4]>>

BandRight ==
    LET c == ImageRect
    IN  <<c[3], c[2], FltAdd(c[3], OffsetLength), c[4]>>

\* C8: for left and right, with the offset d in the image's unit, a text box
\* is matched iff it meets the band of width d beside the image:
\* [x0-d, x0] x [y0, y1] for left, [x1, x1+d] x [y0, y1] for right.
C8_LeftRightBand ==
    (dpc = "done" /\ direction \in {"left", "right"} /\ OffsetInImageUnit) =>
        (dresult = "match" <=>
            SharePoint(TextRect,
                       IF direction = "left" THEN BandLeft ELSE BandRight))

BandUp ==
    LET c == ImageRect
    IN  <<c[1], c[4], c[3], FltAdd(c[4], OffsetLength)>>

BandDown ==
    LET c == ImageRect
    IN  <<c[1], FltSub(c[2], OffsetLength), c[3], c[2]>>

IsPointsImage ==
    image_object.kind = "LT" \/ image_object.unit = "pt"

\* C9: for up and down with an image box in points, a text box is matched
\* iff it meets the band [x0, x1] x [y1, y1+d] for up and
\* [x0, x1] x [y0-d, y0] for down.
C9_UpDownBand ==
    (dpc = "done" /\ direction \in {"up", "down"} /\ IsPointsImage) =>
        (dresult = "match" <=>
            SharePoint(TextRect,
                       IF direction = "up" THEN BandUp ELSE BandDown))

\* a text box below the image is found in the band under it
C9_Witness ==
    /\ dpc = "done" /\ direction = "down" /\ IsPointsImage
    /\ offset.unit = "mm"
    /\ dresult = "match"
    /\ FltLT(TextRect[4], ImageRect[2])
    /\ FltLT(ImageRect[1], TextRect[1])

Expanded ==
    LET c == ImageRect
        d == OffsetLength
    IN  <<FltSub(c[1], d), FltSub(c[2], d), FltAdd(c[3], d), FltAdd(c[4], d)>>

\* The text box has a point in the expanded box outside the interior of the
\* image box.  If there is one, there is one among the corners of the text
\* box cut to the expanded box (the interior of the image box is convex).
HasRingPoint ==
    LET t == TextRect
        e == Expanded
        c == ImageRect
    IN  \E x \in {t[1], t[3], e[1], e[3]}, y \in {t[2], t[4], e[2], e[4]} :
            /\ InRect(x, y, t)
            /\ InRect(x, y, e)
            /\ ~InInterior(x, y, c)

\* C10: for all and None a text box is matched iff it has a point in the
\* image box expanded by d on all sides that is not in the interior of the
\* image box.
C10_RingAroundImage ==
    (dpc = "done" /\ direction \in {"all", "None"}) =>
        (dresult = "match" <=> HasRingPoint)

\* a text box strictly inside the image box is not matched
C10_Witness ==
    /\ dpc = "done" /\ direction = "all"
    /\ dresult = "False"
    /\ InInterior(TextRect[1], TextRect[2], ImageRect)
    /\ InInterior(TextRect[3], TextRect[4], ImageRect)

----------------------------------------------------------------------------
(* Text: a Python str is a sequence of characters. A character is written  *)
(* as the string of that character, "a", where a string can hold it, and   *)
(* as the name of its code point, "U+0130", where it cannot: the grave      *)
(* accent, the code points above U+00FF whose low byte is below 80, and the *)
(* code points above U+FFFF. The tables are those of Unicode 14.0, which    *)
(* the str methods of CPython 3.11 use.                                     *)

\* the characters whose lowercase is one other character, in code-point order
UpperCase ==
    <<"A", "B", "C", "D", "E", "F", "G", "H", "I", "J", "K", "L", "M", "N",
      "O", "P", "Q", "R", "S", "T", "U", "V", "W", "X", "Y", "Z", "À", "Á",
      "Â", "Ã", "Ä", "Å", "Æ", "Ç", "È", "É", "Ê", "Ë", "Ì", "Í", "Î", "Ï",
      "Ð", "Ñ", "Ò", "Ó", "Ô", "Õ", "Ö", "Ø", "Ù", "Ú", "Û", "Ü", "Ý", "Þ",
      "U+0100", "U+0102", "U+0104", "U+0106", "U+0108", "U+010A", "U+010C",
      "U+010E", "U+0110", "U+0112", "U+0114", "U+0116", "U+0118", "U+011A",
      "U+011C", "U+011E", "U+0120", "U+0122", "U+0124", "U+0126", "U+0128",
      "U+012A", "U+012C", "U+012E", "U+0132", "U+0134", "U+0136", "U+0139",
      "U+013B", "U+013D", "U+013F", "U+0141", "U+0143", "U+0145", "U+0147",
      "U+014A", "U+014C", "U+014E", "U+0150", "U+0152", "U+0154", "U+0156",
      "U+0158", "U+015A", "U+015C", "U+015E", "U+0160", "U+0162", "U+0164",
      "U+0166", "U+0168", "U+016A", "U+016C", "U+016E", "U+0170", "U+0172",
      "U+0174", "U+0176", "U+0178", "U+0179", "U+017B", "U+017D", "Ɓ", "Ƃ",
      "Ƅ", "Ɔ", "Ƈ", "Ɖ", "Ɗ", "Ƌ", "Ǝ", "Ə", "Ɛ", "Ƒ", "Ɠ", "Ɣ", "Ɩ", "Ɨ",
      "Ƙ", "Ɯ", "Ɲ", "Ɵ", "Ơ", "Ƣ", "Ƥ", "Ʀ", "Ƨ", "Ʃ", "Ƭ", "Ʈ", "Ư", "Ʊ",
      "Ʋ", "Ƴ", "Ƶ", "Ʒ", "Ƹ", "Ƽ", "Ǆ", "ǅ", "Ǉ", "ǈ", "Ǌ", "ǋ", "Ǎ", "Ǐ",
      "Ǒ", "Ǔ", "Ǖ", "Ǘ", "Ǚ", "Ǜ", "Ǟ", "Ǡ", "Ǣ", "Ǥ", "Ǧ", "Ǩ", "Ǫ", "Ǭ",
      "Ǯ", "Ǳ", "ǲ", "Ǵ", "Ƕ", "Ƿ", "Ǹ", "Ǻ", "Ǽ", "Ǿ", "U+0200", "U+0202",
      "U+0204", "U+0206", "U+0208", "U+020A", "U+020C", "U+020E", "U+0210",
      "U+0212", "U+0214", "U+0216", "U+0218", "U+021A", "U+021C", "U+021E",
      "U+0220", "U+0222", "U+0224", "U+0226", "U+0228", "U+022A", "U+022C",
      "U+022E", "U+0230", "U+0232", "U+023A", "U+023B", "U+023D", "U+023E",
      "U+0241", "U+0243", "U+0244", "U+0245", "U+0246", "U+0248", "U+024A",
      "U+024C", "U+024E", "U+0370", "U+0372", "U+0376", "U+037F", "Ά", "Έ",
      "Ή", "Ί", "Ό", "Ύ", "Ώ", "Α", "Β", "Γ", "Δ", "Ε", "Ζ", "Η", "Θ", "Ι",
      "Κ", "Λ", "Μ", "Ν", "Ξ", "Ο", "Π", "Ρ", "Σ", "Τ", "Υ", "Φ", "Χ", "Ψ",
      "Ω", "Ϊ", "Ϋ", "Ϗ", "Ϙ", "Ϛ", "Ϝ", "Ϟ", "Ϡ", "Ϣ", "Ϥ", "Ϧ", "Ϩ", "Ϫ",
      "Ϭ", "Ϯ", "ϴ", "Ϸ", "Ϲ", "Ϻ", "Ͻ", "Ͼ", "Ͽ", "U+0400", "U+0401",
      "U+0402", "U+0403", "U+0404", "U+0405", "U+0406", "U+0407", "U+0408",
      "U+0409", "U+040A", "U+040B", "U+040C", "U+040D", "U+040E", "U+040F",
      "U+0410", "U+0411", "U+0412", "U+0413", "U+0414", "U+0415", "U+0416",
      "U+0417", "U+0418", "U+0419", "U+041A", "U+041B", "U+041C", "U+041D",
      "U+041E", "U+041F", "U+0420", "U+0421", "U+0422", "U+0423", "U+0424",
      "U+0425", "U+0426", "U+0427", "U+0428", "U+0429", "U+042A", "U+042B",
      "U+042C", "U+042D", "U+042E", "U+042F", "U+0460", "U+0462", "U+0464",
      "U+0466", "U+0468", "U+046A", "U+046C", "U+046E", "U+0470", "U+0472",
      "U+0474", "U+0476", "U+0478", "U+047A", "U+047C", "U+047E", "Ҁ", "Ҋ",
      "Ҍ", "Ҏ", "Ґ", "Ғ", "Ҕ", "Җ", "Ҙ", "Қ", "Ҝ", "Ҟ", "Ҡ", "Ң", "Ҥ", "Ҧ",
      "Ҩ", "Ҫ", "Ҭ", "Ү", "Ұ", "Ҳ", "Ҵ", "Ҷ", "Ҹ", "Һ", "Ҽ", "Ҿ", "Ӏ", "Ӂ",
      "Ӄ", "Ӆ", "Ӈ", "Ӊ", "Ӌ", "Ӎ", "Ӑ", "Ӓ", "Ӕ", "Ӗ", "Ә", "Ӛ", "Ӝ", "Ӟ",
      "Ӡ", "Ӣ", "Ӥ", "Ӧ", "Ө", "Ӫ", "Ӭ", "Ӯ", "Ӱ", "Ӳ", "Ӵ", "Ӷ", "Ӹ", "Ӻ",
      "Ӽ", "Ӿ", "U+0500", "U+0502", "U+0504", "U+0506", "U+0508", "U+050A",
      "U+050C", "U+050E", "U+0510", "U+0512", "U+0514", "U+0516", "U+0518",
      "U+051A", "U+051C", "U+051E", "U+0520", "U+0522", "U+0524", "U+0526",
      "U+0528", "U+052A", "U+052C", "U+052E", "U+0531", "U+0532", "U+0533",
      "U+0534", "U+0535", "U+0536", "U+0537", "U+0538", "U+0539", "U+053A",
      "U+053B", "U+053C", "U+053D", "U+053E", "U+053F", "U+0540", "U+0541",
      "U+0542", "U+0543", "U+0544", "U+0545", "U+0546", "U+0547", "U+0548",
      "U+0549", "U+054A", "U+054B", "U+054C", "U+054D", "U+054E", "U+054F",
      "U+0550", "U+0551", "U+0552", "U+0553", "U+0554", "U+0555", "U+0556",
      "Ⴀ", "Ⴁ", "Ⴂ", "Ⴃ", "Ⴄ", "Ⴅ", "Ⴆ", "Ⴇ", "Ⴈ", "Ⴉ", "Ⴊ", "Ⴋ", "Ⴌ", "Ⴍ",
      "Ⴎ", "Ⴏ", "Ⴐ", "Ⴑ", "Ⴒ", "Ⴓ", "Ⴔ", "Ⴕ", "Ⴖ", "Ⴗ", "Ⴘ", "Ⴙ", "Ⴚ", "Ⴛ",
      "Ⴜ", "Ⴝ", "Ⴞ", "Ⴟ", "Ⴠ", "Ⴡ", "Ⴢ", "Ⴣ", "Ⴤ", "Ⴥ", "Ⴧ", "Ⴭ", "Ꭰ", "Ꭱ",
      "Ꭲ", "Ꭳ", "Ꭴ", "Ꭵ", "Ꭶ", "Ꭷ", "Ꭸ", "Ꭹ", "Ꭺ", "Ꭻ", "Ꭼ", "Ꭽ", "Ꭾ", "Ꭿ",
      "Ꮀ", "Ꮁ", "Ꮂ", "Ꮃ", "Ꮄ", "Ꮅ", "Ꮆ", "Ꮇ", "Ꮈ", "Ꮉ", "Ꮊ", "Ꮋ", "Ꮌ", "Ꮍ",
      "Ꮎ", "Ꮏ", "Ꮐ", "Ꮑ", "Ꮒ", "Ꮓ", "Ꮔ", "Ꮕ", "Ꮖ", "Ꮗ", "Ꮘ", "Ꮙ", "Ꮚ", "Ꮛ",
      "Ꮜ", "Ꮝ", "Ꮞ", "Ꮟ", "Ꮠ", "Ꮡ", "Ꮢ", "Ꮣ", "Ꮤ", "Ꮥ", "Ꮦ", "Ꮧ", "Ꮨ", "Ꮩ",
      "Ꮪ", "Ꮫ", "Ꮬ", "Ꮭ", "Ꮮ", "Ꮯ", "Ꮰ", "Ꮱ", "Ꮲ", "Ꮳ", "Ꮴ", "Ꮵ", "Ꮶ", "Ꮷ",
      "Ꮸ", "Ꮹ", "Ꮺ", "Ꮻ", "Ꮼ", "Ꮽ", "Ꮾ", "Ꮿ", "Ᏸ", "Ᏹ", "Ᏺ", "Ᏻ", "Ᏼ", "Ᏽ",
      "Ა", "Ბ", "Გ", "Დ", "Ე", "Ვ", "Ზ", "Თ", "Ი", "Კ", "Ლ", "Მ", "Ნ", "Ო",
      "Პ", "Ჟ", "Რ", "Ს", "Ტ", "Უ", "Ფ", "Ქ", "Ღ", "Ყ", "Შ", "Ჩ", "Ც", "Ძ",
      "Წ", "Ჭ", "Ხ", "Ჯ", "Ჰ", "Ჱ", "Ჲ", "Ჳ", "Ჴ", "Ჵ", "Ჶ", "Ჷ", "Ჸ", "Ჹ",
      "Ჺ", "Ჽ", "Ჾ", "Ჿ", "U+1E00", "U+1E02", "U+1E04", "U+1E06", "U+1E08",
      "U+1E0A", "U+1E0C", "U+1E0E", "U+1E10", "U+1E12", "U+1E14", "U+1E16",
      "U+1E18", "U+1E1A", "U+1E1C", "U+1E1E", "U+1E20", "U+1E22", "U+1E24",
      "U+1E26", "U+1E28", "U+1E2A", "U+1E2C", "U+1E2E", "U+1E30", "U+1E32",
      "U+1E34", "U+1E36", "U+1E38", "U+1E3A", "U+1E3C", "U+1E3E", "U+1E40",
      "U+1E42", "U+1E44", "U+1E46", "U+1E48", "U+1E4A", "U+1E4C", "U+1E4E",
      "U+1E50", "U+1E52", "U+1E54", "U+1E56", "U+1E58", "U+1E5A", "U+1E5C",
      "U+1E5E", "U+1E60", "U+1E62", "U+1E64", "U+1E66", "U+1E68", "U+1E6A",
      "U+1E6C", "U+1E6E", "U+1E70", "U+1E72", "U+1E74", "U+1E76", "U+1E78",
      "U+1E7A", "U+1E7C", "U+1E7E", "Ẁ", "Ẃ", "Ẅ", "Ẇ", "Ẉ", "Ẋ", "Ẍ", "Ẏ",
      "Ẑ", "Ẓ", "Ẕ", "ẞ", "Ạ", "Ả", "Ấ", "Ầ", "Ẩ", "Ẫ", "Ậ", "Ắ", "Ằ", "Ẳ",
      "Ẵ", "Ặ", "Ẹ", "Ẻ", "Ẽ", "Ế", "Ề", "Ể", "Ễ", "Ệ", "Ỉ", "Ị", "Ọ", "Ỏ",
      "Ố", "Ồ", "Ổ", "Ỗ", "Ộ", "Ớ", "Ờ", "Ở", "Ỡ", "Ợ", "Ụ", "Ủ", "Ứ", "Ừ",
      "Ử", "Ữ", "Ự", "Ỳ", "Ỵ", "Ỷ", "Ỹ", "Ỻ", "Ỽ", "Ỿ", "U+1F08", "U+1F09",
      "U+1F0A", "U+1F0B", "U+1F0C", "U+1F0D", "U+1F0E", "U+1F0F", "U+1F18",
      "U+1F19", "U+1F1A", "U+1F1B", "U+1F1C", "U+1F1D", "U+1F28", "U+1F29",
      "U+1F2A", "U+1F2B", "U+1F2C", "U+1F2D", "U+1F2E", "U+1F2F", "U+1F38",
      "U+1F39", "U+1F3A", "U+1F3B", "U+1F3C", "U+1F3D", "U+1F3E", "U+1F3F",
      "U+1F48", "U+1F49", "U+1F4A", "U+1F4B", "U+1F4C", "U+1F4D", "U+1F59",
      "U+1F5B", "U+1F5D", "U+1F5F", "U+1F68", "U+1F69", "U+1F6A", "U+1F6B",
      "U+1F6C", "U+1F6D", "U+1F6E", "U+1F6F", "ᾈ", "ᾉ", "ᾊ", "ᾋ", "ᾌ", "ᾍ",
      "ᾎ", "ᾏ", "ᾘ", "ᾙ", "ᾚ", "ᾛ", "ᾜ", "ᾝ", "ᾞ", "ᾟ", "ᾨ", "ᾩ", "ᾪ", "ᾫ",
      "ᾬ", "ᾭ", "ᾮ", "ᾯ", "Ᾰ", "Ᾱ", "Ὰ", "Ά", "ᾼ", "Ὲ", "Έ", "Ὴ", "Ή", "ῌ",
      "Ῐ", "Ῑ", "Ὶ", "Ί", "Ῠ", "Ῡ", "Ὺ", "Ύ", "Ῥ", "Ὸ", "Ό", "Ὼ", "Ώ", "ῼ",
      "U+2126", "U+212A", "U+212B", "U+2132", "U+2160", "U+2161", "U+2162",
      "U+2163", "U+2164", "U+2165", "U+2166", "U+2167", "U+2168", "U+2169",
      "U+216A", "U+216B", "U+216C", "U+216D", "U+216E", "U+216F", "Ↄ", "Ⓐ",
      "Ⓑ", "Ⓒ", "Ⓓ", "Ⓔ", "Ⓕ", "Ⓖ", "Ⓗ", "Ⓘ", "Ⓙ", "Ⓚ", "Ⓛ", "Ⓜ", "Ⓝ", "Ⓞ",
      "Ⓟ", "Ⓠ", "Ⓡ", "Ⓢ", "Ⓣ", "Ⓤ", "Ⓥ", "Ⓦ", "Ⓧ", "Ⓨ", "Ⓩ", "U+2C00",
      "U+2C01", "U+2C02", "U+2C03", "U+2C04", "U+2C05", "U+2C06", "U+2C07",
      "U+2C08", "U+2C09", "U+2C0A", "U+2C0B", "U+2C0C", "U+2C0D", "U+2C0E",
      "U+2C0F", "U+2C10", "U+2C11", "U+2C12", "U+2C13", "U+2C14", "U+2C15",
      "U+2C16", "U+2C17", "U+2C18", "U+2C19", "U+2C1A", "U+2C1B", "U+2C1C",
      "U+2C1D", "U+2C1E", "U+2C1F", "U+2C20", "U+2C21", "U+2C22", "U+2C23",
      "U+2C24", "U+2C25", "U+2C26", "U+2C27", "U+2C28", "U+2C29", "U+2C2A",
      "U+2C2B", "U+2C2C", "U+2C2D", "U+2C2E", "U+2C2F", "U+2C60", "U+2C62",
      "U+2C63", "U+2C64", "U+2C67", "U+2C69", "U+2C6B", "U+2C6D", "U+2C6E",
      "U+2C6F", "U+2C70", "U+2C72", "U+2C75", "U+2C7E", "U+2C7F", "Ⲁ", "Ⲃ",
      "Ⲅ", "Ⲇ", "Ⲉ", "Ⲋ", "Ⲍ", "Ⲏ", "Ⲑ", "Ⲓ", "Ⲕ", "Ⲗ", "Ⲙ", "Ⲛ", "Ⲝ", "Ⲟ",
      "Ⲡ", "Ⲣ", "Ⲥ", "Ⲧ", "Ⲩ", "Ⲫ", "Ⲭ", "Ⲯ", "Ⲱ", "Ⲳ", "Ⲵ", "Ⲷ", "Ⲹ", "Ⲻ",
      "Ⲽ", "Ⲿ", "Ⳁ", "Ⳃ", "Ⳅ", "Ⳇ", "Ⳉ", "Ⳋ", "Ⳍ", "Ⳏ", "Ⳑ", "Ⳓ", "Ⳕ", "Ⳗ",
      "Ⳙ", "Ⳛ", "Ⳝ", "Ⳟ", "Ⳡ", "Ⳣ", "Ⳬ", "Ⳮ", "Ⳳ", "U+A640", "U+A642",
      "U+A644", "U+A646", "U+A648", "U+A64A", "U+A64C", "U+A64E", "U+A650",
      "U+A652", "U+A654", "U+A656", "U+A658", "U+A65A", "U+A65C", "U+A65E",
      "U+A660", "U+A662", "U+A664", "U+A666", "U+A668", "U+A66A", "U+A66C",
      "Ꚁ", "Ꚃ", "Ꚅ", "Ꚇ", "Ꚉ", "Ꚋ", "Ꚍ", "Ꚏ", "Ꚑ", "Ꚓ", "Ꚕ", "Ꚗ", "Ꚙ", "Ꚛ",
      "U+A722", "U+A724", "U+A726", "U+A728", "U+A72A", "U+A72C", "U+A72E",
      "U+A732", "U+A734", "U+A736", "U+A738", "U+A73A", "U+A73C", "U+A73E",
      "U+A740", "U+A742", "U+A744", "U+A746", "U+A748", "U+A74A", "U+A74C",
      "U+A74E", "U+A750", "U+A752", "U+A754", "U+A756", "U+A758", "U+A75A",
      "U+A75C", "U+A75E", "U+A760", "U+A762", "U+A764", "U+A766", "U+A768",
      "U+A76A", "U+A76C", "U+A76E", "U+A779", "U+A77B", "U+A77D", "U+A77E",
      "Ꞁ", "Ꞃ", "Ꞅ", "Ꞇ", "Ꞌ", "Ɥ", "Ꞑ", "Ꞓ", "Ꞗ", "Ꞙ", "Ꞛ", "Ꞝ", "Ꞟ", "Ꞡ",
      "Ꞣ", "Ꞥ", "Ꞧ", "Ꞩ", "Ɦ", "Ɜ", "Ɡ", "Ɬ", "Ɪ", "Ʞ", "Ʇ", "Ʝ", "Ꭓ", "Ꞵ",
      "Ꞷ", "Ꞹ", "Ꞻ", "Ꞽ", "Ꞿ", "Ꟁ", "Ꟃ", "Ꞔ", "Ʂ", "Ᶎ", "Ꟈ", "Ꟊ", "Ꟑ", "Ꟗ",
      "Ꟙ", "Ꟶ", "U+FF21", "U+FF22", "U+FF23", "U+FF24", "U+FF25", "U+FF26",
      "U+FF27", "U+FF28", "U+FF29", "U+FF2A", "U+FF2B", "U+FF2C", "U+FF2D",
      "U+FF2E", "U+FF2F", "U+FF30", "U+FF31", "U+FF32", "U+FF33", "U+FF34",
      "U+FF35", "U+FF36", "U+FF37", "U+FF38", "U+FF39", "U+FF3A", "U+10400",
      "U+10401", "U+10402", "U+10403", "U+10404", "U+10405", "U+10406",
      "U+10407", "U+10408", "U+10409", "U+1040A", "U+1040B", "U+1040C",
      "U+1040D", "U+1040E", "U+1040F", "U+10410", "U+10411", "U+10412",
      "U+10413", "U+10414", "U+10415", "U+10416", "U+10417", "U+10418",
      "U+10419", "U+1041A", "U+1041B", "U+1041C", "U+1041D", "U+1041E",
      "U+1041F", "U+10420", "U+10421", "U+10422", "U+10423", "U+10424",
      "U+10425", "U+10426", "U+10427", "U+104B0", "U+104B1", "U+104B2",
      "U+104B3", "U+104B4", "U+104B5", "U+104B6", "U+104B7", "U+104B8",
      "U+104B9", "U+104BA", "U+104BB", "U+104BC", "U+104BD", "U+104BE",
      "U+104BF", "U+104C0", "U+104C1", "U+104C2", "U+104C3", "U+104C4",
      "U+104C5", "U+104C6", "U+104C7", "U+104C8", "U+104C9", "U+104CA",
      "U+104CB", "U+104CC", "U+104CD", "U+104CE", "U+104CF", "U+104D0",
      "U+104D1", "U+104D2", "U+104D3", "U+10570", "U+10571", "U+10572",
      "U+10573", "U+10574", "U+10575", "U+10576", "U+10577", "U+10578",
      "U+10579", "U+1057A", "U+1057C", "U+1057D", "U+1057E", "U+1057F",
      "U+10580", "U+10581", "U+10582", "U+10583", "U+10584", "U+10585",
      "U+10586", "U+10587", "U+10588", "U+10589", "U+1058A", "U+1058C",
      "U+1058D", "U+1058E", "U+1058F", "U+10590", "U+10591", "U+10592",
      "U+10594", "U+10595", "U+10C80", "U+10C81", "U+10C82", "U+10C83",
      "U+10C84", "U+10C85", "U+10C86", "U+10C87", "U+10C88", "U+10C89",
      "U+10C8A", "U+10C8B", "U+10C8C", "U+10C8D", "U+10C8E", "U+10C8F",
      "U+10C90", "U+10C91", "U+10C92", "U+10C93", "U+10C94", "U+10C95",
      "U+10C96", "U+10C97", "U+10C98", "U+10C99", "U+10C9A", "U+10C9B",
      "U+10C9C", "U+10C9D", "U+10C9E", "U+10C9F", "U+10CA0", "U+10CA1",
      "U+10CA2", "U+10CA3", "U+10CA4", "U+10CA5", "U+10CA6", "U+10CA7",
      "U+10CA8", "U+10CA9", "U+10CAA", "U+10CAB", "U+10CAC", "U+10CAD",
      "U+10CAE", "U+10CAF", "U+10CB0", "U+10CB1", "U+10CB2", "U+118A0",
      "U+118A1", "U+118A2", "U+118A3", "U+118A4", "U+118A5", "U+118A6",
      "U+118A7", "U+118A8", "U+118A9", "U+118AA", "U+118AB", "U+118AC",
      "U+118AD", "U+118AE", "U+118AF", "U+118B0", "U+118B1", "U+118B2",
      "U+118B3", "U+118B4", "U+118B5", "U+118B6", "U+118B7", "U+118B8",
      "U+118B9", "U+118BA", "U+118BB", "U+118BC", "U+118BD", "U+118BE",
      "U+118BF", "U+16E40", "U+16E41", "U+16E42", "U+16E43", "U+16E44",
      "U+16E45", "U+16E46", "U+16E47", "U+16E48", "U+16E49", "U+16E4A",
      "U+16E4B", "U+16E4C", "U+16E4D", "U+16E4E", "U+16E4F", "U+16E50",
      "U+16E51", "U+16E52", "U+16E53", "U+16E54", "U+16E55", "U+16E56",
      "U+16E57", "U+16E58", "U+16E59", "U+16E5A", "U+16E5B", "U+16E5C",
      "U+16E5D", "U+16E5E", "U+16E5F", "U+1E900", "U+1E901", "U+1E902",
      "U+1E903", "U+1E904", "U+1E905", "U+1E906", "U+1E907", "U+1E908",
      "U+1E909", "U+1E90A", "U+1E90B", "U+1E90C", "U+1E90D", "U+1E90E",
      "U+1E90F", "U+1E910", "U+1E911", "U+1E912", "U+1E913", "U+1E914",
      "U+1E915", "U+1E916", "U+1E917", "U+1E918", "U+1E919", "U+1E91A",
      "U+1E91B", "U+1E91C", "U+1E91D", "U+1E91E", "U+1E91F", "U+1E920",
      "U+1E921">>

\* LowerCase[i] is the lowercase of UpperCase[i]
LowerCase ==
    <<"a", "b", "c", "d", "e", "f", "g", "h", "i", "j", "k", "l", "m", "n",
      "o", "p", "q", "r", "s", "t", "u", "v", "w", "x", "y", "z", "à", "á",
      "â", "ã", "ä", "å", "æ", "ç", "è", "é", "ê", "ë", "ì", "í", "î", "ï",
      "ð", "ñ", "ò", "ó", "ô", "õ", "ö", "ø", "ù", "ú", "û", "ü", "ý", "þ",
      "U+0101", "U+0103", "U+0105", "U+0107", "U+0109", "U+010B", "U+010D",
      "U+010F", "U+0111", "U+0113", "U+0115", "U+0117", "U+0119", "U+011B",
      "U+011D", "U+011F", "U+0121", "U+0123", "U+0125", "U+0127", "U+0129",
      "U+012B", "U+012D", "U+012F", "U+0133", "U+0135", "U+0137", "U+013A",
      "U+013C", "U+013E", "U+0140", "U+0142", "U+0144", "U+0146", "U+0148",
      "U+014B", "U+014D", "U+014F", "U+0151", "U+0153", "U+0155", "U+0157",
      "U+0159", "U+015B", "U+015D", "U+015F", "U+0161", "U+0163", "U+0165",
      "U+0167", "U+0169", "U+016B", "U+016D", "U+016F", "U+0171", "U+0173",
      "U+0175", "U+0177", "ÿ", "U+017A", "U+017C", "U+017E", "U+0253", "ƃ",
      "ƅ", "U+0254", "ƈ", "U+0256", "U+0257", "ƌ", "ǝ", "U+0259", "U+025B",
      "ƒ", "U+0260", "U+0263", "U+0269", "U+0268", "ƙ", "U+026F", "U+0272",
      "U+0275", "ơ", "ƣ", "ƥ", "ʀ", "ƨ", "ʃ", "ƭ", "ʈ", "ư", "ʊ", "ʋ", "ƴ",
      "ƶ", "ʒ", "ƹ", "ƽ", "ǆ", "ǆ", "ǉ", "ǉ", "ǌ", "ǌ", "ǎ", "ǐ", "ǒ", "ǔ",
      "ǖ", "ǘ", "ǚ", "ǜ", "ǟ", "ǡ", "ǣ", "ǥ", "ǧ", "ǩ", "ǫ", "ǭ", "ǯ", "ǳ",
      "ǳ", "ǵ", "ƕ", "ƿ", "ǹ", "ǻ", "ǽ", "ǿ", "U+0201", "U+0203", "U+0205",
      "U+0207", "U+0209", "U+020B", "U+020D", "U+020F", "U+0211", "U+0213",
      "U+0215", "U+0217", "U+0219", "U+021B", "U+021D", "U+021F", "ƞ",
      "U+0223", "U+0225", "U+0227", "U+0229", "U+022B", "U+022D", "U+022F",
      "U+0231", "U+0233", "U+2C65", "U+023C", "ƚ", "U+2C66", "U+0242", "ƀ",
      "ʉ", "ʌ", "U+0247", "U+0249", "U+024B", "U+024D", "U+024F", "U+0371",
      "U+0373", "U+0377", "ϳ", "ά", "έ", "ή", "ί", "ό", "ύ", "ώ", "α", "β",
      "γ", "δ", "ε", "ζ", "η", "θ", "ι", "κ", "λ", "μ", "ν", "ξ", "ο", "π",
      "ρ", "σ", "τ", "υ", "φ", "χ", "ψ", "ω", "ϊ", "ϋ", "ϗ", "ϙ", "ϛ", "ϝ",
      "ϟ", "ϡ", "ϣ", "ϥ", "ϧ", "ϩ", "ϫ", "ϭ", "ϯ", "θ", "ϸ", "ϲ", "ϻ",
      "U+037B", "U+037C", "U+037D", "U+0450", "U+0451", "U+0452", "U+0453",
      "U+0454", "U+0455", "U+0456", "U+0457", "U+0458", "U+0459", "U+045A",
      "U+045B", "U+045C", "U+045D", "U+045E", "U+045F", "U+0430", "U+0431",
      "U+0432", "U+0433", "U+0434", "U+0435", "U+0436", "U+0437", "U+0438",
      "U+0439", "U+043A", "U+043B", "U+043C", "U+043D", "U+043E", "U+043F",
      "U+0440", "U+0441", "U+0442", "U+0443", "U+0444", "U+0445", "U+0446",
      "U+0447", "U+0448", "U+0449", "U+044A", "U+044B", "U+044C", "U+044D",
      "U+044E", "U+044F", "U+0461", "U+0463", "U+0465", "U+0467", "U+0469",
      "U+046B", "U+046D", "U+046F", "U+0471", "U+0473", "U+0475", "U+0477",
      "U+0479", "U+047B", "U+047D", "U+047F", "ҁ", "ҋ", "ҍ", "ҏ", "ґ", "ғ",
      "ҕ", "җ", "ҙ", "қ", "ҝ", "ҟ", "ҡ", "ң", "ҥ", "ҧ", "ҩ", "ҫ", "ҭ", "ү",
      "ұ", "ҳ", "ҵ", "ҷ", "ҹ", "һ", "ҽ", "ҿ", "ӏ", "ӂ", "ӄ", "ӆ", "ӈ", "ӊ",
      "ӌ", "ӎ", "ӑ", "ӓ", "ӕ", "ӗ", "ә", "ӛ", "ӝ", "ӟ", "ӡ", "ӣ", "ӥ", "ӧ",
      "ө", "ӫ", "ӭ", "ӯ", "ӱ", "ӳ", "ӵ", "ӷ", "ӹ", "ӻ", "ӽ", "ӿ", "U+0501",
      "U+0503", "U+0505", "U+0507", "U+0509", "U+050B", "U+050D", "U+050F",
      "U+0511", "U+0513", "U+0515", "U+0517", "U+0519", "U+051B", "U+051D",
      "U+051F", "U+0521", "U+0523", "U+0525", "U+0527", "U+0529", "U+052B",
      "U+052D", "U+052F", "U+0561", "U+0562", "U+0563", "U+0564", "U+0565",
      "U+0566", "U+0567", "U+0568", "U+0569", "U+056A", "U+056B", "U+056C",
      "U+056D", "U+056E", "U+056F", "U+0570", "U+0571", "U+0572", "U+0573",
      "U+0574", "U+0575", "U+0576", "U+0577", "U+0578", "U+0579", "U+057A",
      "U+057B", "U+057C", "U+057D", "U+057E", "U+057F", "ր", "ց", "ւ", "փ",
      "ք", "օ", "ֆ", "U+2D00", "U+2D01", "U+2D02", "U+2D03", "U+2D04",
      "U+2D05", "U+2D06", "U+2D07", "U+2D08", "U+2D09", "U+2D0A", "U+2D0B",
      "U+2D0C", "U+2D0D", "U+2D0E", "U+2D0F", "U+2D10", "U+2D11", "U+2D12",
      "U+2D13", "U+2D14", "U+2D15", "U+2D16", "U+2D17", "U+2D18", "U+2D19",
      "U+2D1A", "U+2D1B", "U+2D1C", "U+2D1D", "U+2D1E", "U+2D1F", "U+2D20",
      "U+2D21", "U+2D22", "U+2D23", "U+2D24", "U+2D25", "U+2D27", "U+2D2D",
      "U+AB70", "U+AB71", "U+AB72", "U+AB73", "U+AB74", "U+AB75", "U+AB76",
      "U+AB77", "U+AB78", "U+AB79", "U+AB7A", "U+AB7B", "U+AB7C", "U+AB7D",
      "U+AB7E", "U+AB7F", "ꮀ", "ꮁ", "ꮂ", "ꮃ", "ꮄ", "ꮅ", "ꮆ", "ꮇ", "ꮈ", "ꮉ",
      "ꮊ", "ꮋ", "ꮌ", "ꮍ", "ꮎ", "ꮏ", "ꮐ", "ꮑ", "ꮒ", "ꮓ", "ꮔ", "ꮕ", "ꮖ", "ꮗ",
      "ꮘ", "ꮙ", "ꮚ", "ꮛ", "ꮜ", "ꮝ", "ꮞ", "ꮟ", "ꮠ", "ꮡ", "ꮢ", "ꮣ", "ꮤ", "ꮥ",
      "ꮦ", "ꮧ", "ꮨ", "ꮩ", "ꮪ", "ꮫ", "ꮬ", "ꮭ", "ꮮ", "ꮯ", "ꮰ", "ꮱ", "ꮲ", "ꮳ",
      "ꮴ", "ꮵ", "ꮶ", "ꮷ", "ꮸ", "ꮹ", "ꮺ", "ꮻ", "ꮼ", "ꮽ", "ꮾ", "ꮿ", "ᏸ", "ᏹ",
      "ᏺ", "ᏻ", "ᏼ", "ᏽ", "ა", "ბ", "გ", "დ", "ე", "ვ", "ზ", "თ", "ი", "კ",
      "ლ", "მ", "ნ", "ო", "პ", "ჟ", "რ", "ს", "ტ", "უ", "ფ", "ქ", "ღ", "ყ",
      "შ", "ჩ", "ც", "ძ", "წ", "ჭ", "ხ", "ჯ", "ჰ", "ჱ", "ჲ", "ჳ", "ჴ", "ჵ",
      "ჶ", "ჷ", "ჸ", "ჹ", "ჺ", "ჽ", "ჾ", "ჿ", "U+1E01", "U+1E03", "U+1E05",
      "U+1E07", "U+1E09", "U+1E0B", "U+1E0D", "U+1E0F", "U+1E11", "U+1E13",
      "U+1E15", "U+1E17", "U+1E19", "U+1E1B", "U+1E1D", "U+1E1F", "U+1E21",
      "U+1E23", "U+1E25", "U+1E27", "U+1E29", "U+1E2B", "U+1E2D", "U+1E2F",
      "U+1E31", "U+1E33", "U+1E35", "U+1E37", "U+1E39", "U+1E3B", "U+1E3D",
      "U+1E3F", "U+1E41", "U+1E43", "U+1E45", "U+1E47", "U+1E49", "U+1E4B",
      "U+1E4D", "U+1E4F", "U+1E51", "U+1E53", "U+1E55", "U+1E57", "U+1E59",
      "U+1E5B", "U+1E5D", "U+1E5F", "U+1E61", "U+1E63", "U+1E65", "U+1E67",
      "U+1E69", "U+1E6B", "U+1E6D", "U+1E6F", "U+1E71", "U+1E73", "U+1E75",
      "U+1E77", "U+1E79", "U+1E7B", "U+1E7D", "U+1E7F", "ẁ", "ẃ", "ẅ", "ẇ",
      "ẉ", "ẋ", "ẍ", "ẏ", "ẑ", "ẓ", "ẕ", "ß", "ạ", "ả", "ấ", "ầ", "ẩ", "ẫ",
      "ậ", "ắ", "ằ", "ẳ", "ẵ", "ặ", "ẹ", "ẻ", "ẽ", "ế", "ề", "ể", "ễ", "ệ",
      "ỉ", "ị", "ọ", "ỏ", "ố", "ồ", "ổ", "ỗ", "ộ", "ớ", "ờ", "ở", "ỡ", "ợ",
      "ụ", "ủ", "ứ", "ừ", "ử", "ữ", "ự", "ỳ", "ỵ", "ỷ", "ỹ", "ỻ", "ỽ", "ỿ",
      "U+1F00", "U+1F01", "U+1F02", "U+1F03", "U+1F04", "U+1F05", "U+1F06",
      "U+1F07", "U+1F10", "U+1F11", "U+1F12", "U+1F13", "U+1F14", "U+1F15",
      "U+1F20", "U+1F21", "U+1F22", "U+1F23", "U+1F24", "U+1F25", "U+1F26",
      "U+1F27", "U+1F30", "U+1F31", "U+1F32", "U+1F33", "U+1F34", "U+1F35",
      "U+1F36", "U+1F37", "U+1F40", "U+1F41", "U+1F42", "U+1F43", "U+1F44",
      "U+1F45", "U+1F51", "U+1F53", "U+1F55", "U+1F57", "U+1F60", "U+1F61",
      "U+1F62", "U+1F63", "U+1F64", "U+1F65", "U+1F66", "U+1F67", "ᾀ", "ᾁ",
      "ᾂ", "ᾃ", "ᾄ", "ᾅ", "ᾆ", "ᾇ", "ᾐ", "ᾑ", "ᾒ", "ᾓ", "ᾔ", "ᾕ", "ᾖ", "ᾗ",
      "ᾠ", "ᾡ", "ᾢ", "ᾣ", "ᾤ", "ᾥ", "ᾦ", "ᾧ", "ᾰ", "ᾱ", "U+1F70", "U+1F71",
      "ᾳ", "U+1F72", "U+1F73", "U+1F74", "U+1F75", "ῃ", "ῐ", "ῑ", "U+1F76",
      "U+1F77", "ῠ", "ῡ", "U+1F7A", "U+1F7B", "ῥ", "U+1F78", "U+1F79",
      "U+1F7C", "U+1F7D", "ῳ", "ω", "k", "å", "U+214E", "U+2170", "U+2171",
      "U+2172", "U+2173", "U+2174", "U+2175", "U+2176", "U+2177", "U+2178",
      "U+2179", "U+217A", "U+217B", "U+217C", "U+217D", "U+217E", "U+217F",
      "ↄ", "ⓐ", "ⓑ", "ⓒ", "ⓓ", "ⓔ", "ⓕ", "ⓖ", "ⓗ", "ⓘ", "ⓙ", "ⓚ", "ⓛ", "ⓜ",
      "ⓝ", "ⓞ", "ⓟ", "ⓠ", "ⓡ", "ⓢ", "ⓣ", "ⓤ", "ⓥ", "ⓦ", "ⓧ", "ⓨ", "ⓩ",
      "U+2C30", "U+2C31", "U+2C32", "U+2C33", "U+2C34", "U+2C35", "U+2C36",
      "U+2C37", "U+2C38", "U+2C39", "U+2C3A", "U+2C3B", "U+2C3C", "U+2C3D",
      "U+2C3E", "U+2C3F", "U+2C40", "U+2C41", "U+2C42", "U+2C43", "U+2C44",
      "U+2C45", "U+2C46", "U+2C47", "U+2C48", "U+2C49", "U+2C4A", "U+2C4B",
      "U+2C4C", "U+2C4D", "U+2C4E", "U+2C4F", "U+2C50", "U+2C51", "U+2C52",
      "U+2C53", "U+2C54", "U+2C55", "U+2C56", "U+2C57", "U+2C58", "U+2C59",
      "U+2C5A", "U+2C5B", "U+2C5C", "U+2C5D", "U+2C5E", "U+2C5F", "U+2C61",
      "U+026B", "U+1D7D", "U+027D", "U+2C68", "U+2C6A", "U+2C6C", "U+0251",
      "U+0271", "U+0250", "U+0252", "U+2C73", "U+2C76", "U+023F", "U+0240",
      "ⲁ", "ⲃ", "ⲅ", "ⲇ", "ⲉ", "ⲋ", "ⲍ", "ⲏ", "ⲑ", "ⲓ", "ⲕ", "ⲗ", "ⲙ", "ⲛ",
      "ⲝ", "ⲟ", "ⲡ", "ⲣ", "ⲥ", "ⲧ", "ⲩ", "ⲫ", "ⲭ", "ⲯ", "ⲱ", "ⲳ", "ⲵ", "ⲷ",
      "ⲹ", "ⲻ", "ⲽ", "ⲿ", "ⳁ", "ⳃ", "ⳅ", "ⳇ", "ⳉ", "ⳋ", "ⳍ", "ⳏ", "ⳑ", "ⳓ",
      "ⳕ", "ⳗ", "ⳙ", "ⳛ", "ⳝ", "ⳟ", "ⳡ", "ⳣ", "ⳬ", "ⳮ", "ⳳ", "U+A641",
      "U+A643", "U+A645", "U+A647", "U+A649", "U+A64B", "U+A64D", "U+A64F",
      "U+A651", "U+A653", "U+A655", "U+A657", "U+A659", "U+A65B", "U+A65D",
      "U+A65F", "U+A661", "U+A663", "U+A665", "U+A667", "U+A669", "U+A66B",
      "U+A66D", "ꚁ", "ꚃ", "ꚅ", "ꚇ", "ꚉ", "ꚋ", "ꚍ", "ꚏ", "ꚑ", "ꚓ", "ꚕ", "ꚗ",
      "ꚙ", "ꚛ", "U+A723", "U+A725", "U+A727", "U+A729", "U+A72B", "U+A72D",
      "U+A72F", "U+A733", "U+A735", "U+A737", "U+A739", "U+A73B", "U+A73D",
      "U+A73F", "U+A741", "U+A743", "U+A745", "U+A747", "U+A749", "U+A74B",
      "U+A74D", "U+A74F", "U+A751", "U+A753", "U+A755", "U+A757", "U+A759",
      "U+A75B", "U+A75D", "U+A75F", "U+A761", "U+A763", "U+A765", "U+A767",
      "U+A769", "U+A76B", "U+A76D", "U+A76F", "U+A77A", "U+A77C", "U+1D79",
      "U+A77F", "ꞁ", "ꞃ", "ꞅ", "ꞇ", "ꞌ", "U+0265", "ꞑ", "ꞓ", "ꞗ", "ꞙ", "ꞛ",
      "ꞝ", "ꞟ", "ꞡ", "ꞣ", "ꞥ", "ꞧ", "ꞩ", "U+0266", "U+025C", "U+0261",
      "U+026C", "U+026A", "ʞ", "ʇ", "ʝ", "U+AB53", "ꞵ", "ꞷ", "ꞹ", "ꞻ", "ꞽ",
      "ꞿ", "ꟁ", "ꟃ", "ꞔ", "ʂ", "ᶎ", "ꟈ", "ꟊ", "ꟑ", "ꟗ", "ꟙ", "ꟶ", "U+FF41",
      "U+FF42", "U+FF43", "U+FF44", "U+FF45", "U+FF46", "U+FF47", "U+FF48",
      "U+FF49", "U+FF4A", "U+FF4B", "U+FF4C", "U+FF4D", "U+FF4E", "U+FF4F",
      "U+FF50", "U+FF51", "U+FF52", "U+FF53", "U+FF54", "U+FF55", "U+FF56",
      "U+FF57", "U+FF58", "U+FF59", "U+FF5A", "U+10428", "U+10429",
      "U+1042A", "U+1042B", "U+1042C", "U+1042D", "U+1042E", "U+1042F",
      "U+10430", "U+10431", "U+10432", "U+10433", "U+10434", "U+10435",
      "U+10436", "U+10437", "U+10438", "U+10439", "U+1043A", "U+1043B",
      "U+1043C", "U+1043D", "U+1043E", "U+1043F", "U+10440", "U+10441",
      "U+10442", "U+10443", "U+10444", "U+10445", "U+10446", "U+10447",
      "U+10448", "U+10449", "U+1044A", "U+1044B", "U+1044C", "U+1044D",
      "U+1044E", "U+1044F", "U+104D8", "U+104D9", "U+104DA", "U+104DB",
      "U+104DC", "U+104DD", "U+104DE", "U+104DF", "U+104E0", "U+104E1",
      "U+104E2", "U+104E3", "U+104E4", "U+104E5", "U+104E6", "U+104E7",
      "U+104E8", "U+104E9", "U+104EA", "U+104EB", "U+104EC", "U+104ED",
      "U+104EE", "U+104EF", "U+104F0", "U+104F1", "U+104F2", "U+104F3",
      "U+104F4", "U+104F5", "U+104F6", "U+104F7", "U+104F8", "U+104F9",
      "U+104FA", "U+104FB", "U+10597", "U+10598", "U+10599", "U+1059A",
      "U+1059B", "U+1059C", "U+1059D", "U+1059E", "U+1059F", "U+105A0",
      "U+105A1", "U+105A3", "U+105A4", "U+105A5", "U+105A6", "U+105A7",
      "U+105A8", "U+105A9", "U+105AA", "U+105AB", "U+105AC", "U+105AD",
      "U+105AE", "U+105AF", "U+105B0", "U+105B1", "U+105B3", "U+105B4",
      "U+105B5", "U+105B6", "U+105B7", "U+105B8", "U+105B9", "U+105BB",
      "U+105BC", "U+10CC0", "U+10CC1", "U+10CC2", "U+10CC3", "U+10CC4",
      "U+10CC5", "U+10CC6", "U+10CC7", "U+10CC8", "U+10CC9", "U+10CCA",
      "U+10CCB", "U+10CCC", "U+10CCD", "U+10CCE", "U+10CCF", "U+10CD0",
      "U+10CD1", "U+10CD2", "U+10CD3", "U+10CD4", "U+10CD5", "U+10CD6",
      "U+10CD7", "U+10CD8", "U+10CD9", "U+10CDA", "U+10CDB", "U+10CDC",
      "U+10CDD", "U+10CDE", "U+10CDF", "U+10CE0", "U+10CE1", "U+10CE2",
      "U+10CE3", "U+10CE4", "U+10CE5", "U+10CE6", "U+10CE7", "U+10CE8",
      "U+10CE9", "U+10CEA", "U+10CEB", "U+10CEC", "U+10CED", "U+10CEE",
      "U+10CEF", "U+10CF0", "U+10CF1", "U+10CF2", "U+118C0", "U+118C1",
      "U+118C2", "U+118C3", "U+118C4", "U+118C5", "U+118C6", "U+118C7",
      "U+118C8", "U+118C9", "U+118CA", "U+118CB", "U+118CC", "U+118CD",
      "U+118CE", "U+118CF", "U+118D0", "U+118D1", "U+118D2", "U+118D3",
      "U+118D4", "U+118D5", "U+118D6", "U+118D7", "U+118D8", "U+118D9",
      "U+118DA", "U+118DB", "U+118DC", "U+118DD", "U+118DE", "U+118DF",
      "U+16E60", "U+16E61", "U+16E62", "U+16E63", "U+16E64", "U+16E65",
      "U+16E66", "U+16E67", "U+16E68", "U+16E69", "U+16E6A", "U+16E6B",
      "U+16E6C", "U+16E6D", "U+16E6E", "U+16E6F", "U+16E70", "U+16E71",
      "U+16E72", "U+16E73", "U+16E74", "U+16E75", "U+16E76", "U+16E77",
      "U+16E78", "U+16E79", "U+16E7A", "U+16E7B", "U+16E7C", "U+16E7D",
      "U+16E7E", "U+16E7F", "U+1E922", "U+1E923", "U+1E924", "U+1E925",
      "U+1E926", "U+1E927", "U+1E928", "U+1E929", "U+1E92A", "U+1E92B",
      "U+1E92C", "U+1E92D", "U+1E92E", "U+1E92F", "U+1E930", "U+1E931",
      "U+1E932", "U+1E933", "U+1E934", "U+1E935", "U+1E936", "U+1E937",
      "U+1E938", "U+1E939", "U+1E93A", "U+1E93B", "U+1E93C", "U+1E93D",
      "U+1E93E", "U+1E93F", "U+1E940", "U+1E941", "U+1E942", "U+1E943">>

Capitals == {UpperCase[i] : i \in DOMAIN UpperCase}

\* str.lower() of the str of one character c; the lowercase of U+0130, the
\* capital I with a dot above, is i followed by the combining dot U+0307
lower_char(c) ==
    IF c = "U+0130" THEN <<"i", "U+0307">>
    ELSE IF c \in Capitals
         THEN <<LowerCase[CHOOSE i \in DOMAIN UpperCase : UpperCase[i] = c]>>
         ELSE <<c>>

\* the cased characters that str.lower() leaves as they are
Uncapital ==
    {"a", "b", "c", "d", "e", "f", "g", "h", "i", "j", "k", "l", "m", "n",
     "o", "p", "q", "r", "s", "t", "u", "v", "w", "x", "y", "z", "ª", "µ",
     "º", "ß", "à", "á", "â", "ã", "ä", "å", "æ", "ç", "è", "é", "ê", "ë",
     "ì", "í", "î", "ï", "ð", "ñ", "ò", "ó", "ô", "õ", "ö", "ø", "ù", "ú",
     "û", "ü", "ý", "þ", "ÿ", "U+0101", "U+0103", "U+0105", "U+0107",
     "U+0109", "U+010B", "U+010D", "U+010F", "U+0111", "U+0113", "U+0115",
     "U+0117", "U+0119", "U+011B", "U+011D", "U+011F", "U+0121", "U+0123",
     "U+0125", "U+0127", "U+0129", "U+012B", "U+012D", "U+012F", "U+0131",
     "U+0133", "U+0135", "U+0137", "U+0138", "U+013A", "U+013C", "U+013E",
     "U+0140", "U+0142", "U+0144", "U+0146", "U+0148", "U+0149", "U+014B",
     "U+014D", "U+014F", "U+0151", "U+0153", "U+0155", "U+0157", "U+0159",
     "U+015B", "U+015D", "U+015F", "U+0161", "U+0163", "U+0165", "U+0167",
     "U+0169", "U+016B", "U+016D", "U+016F", "U+0171", "U+0173", "U+0175",
     "U+0177", "U+017A", "U+017C", "U+017E", "U+017F", "ƀ", "ƃ", "ƅ", "ƈ",
     "ƌ", "ƍ", "ƒ", "ƕ", "ƙ", "ƚ", "ƛ", "ƞ", "ơ", "ƣ", "ƥ", "ƨ", "ƪ", "ƫ",
     "ƭ", "ư", "ƴ", "ƶ", "ƹ", "ƺ", "ƽ", "ƾ", "ƿ", "ǆ", "ǉ", "ǌ", "ǎ", "ǐ",
     "ǒ", "ǔ", "ǖ", "ǘ", "ǚ", "ǜ", "ǝ", "ǟ", "ǡ", "ǣ", "ǥ", "ǧ", "ǩ", "ǫ",
     "ǭ", "ǯ", "ǰ", "ǳ", "ǵ", "ǹ", "ǻ", "ǽ", "ǿ", "U+0201", "U+0203",
     "U+0205", "U+0207", "U+0209", "U+020B", "U+020D", "U+020F", "U+0211",
     "U+0213", "U+0215", "U+0217", "U+0219", "U+021B", "U+021D", "U+021F",
     "U+0221", "U+0223", "U+0225", "U+0227", "U+0229", "U+022B", "U+022D",
     "U+022F", "U+0231", "U+0233", "U+0234", "U+0235", "U+0236", "U+0237",
     "U+0238", "U+0239", "U+023C", "U+023F", "U+0240", "U+0242", "U+0247",
     "U+0249", "U+024B", "U+024D", "U+024F", "U+0250", "U+0251", "U+0252",
     "U+0253", "U+0254", "U+0255", "U+0256", "U+0257", "U+0258", "U+0259",
     "U+025A", "U+025B", "U+025C", "U+025D", "U+025E", "U+025F", "U+0260",
     "U+0261", "U+0262", "U+0263", "U+0264", "U+0265", "U+0266", "U+0267",
     "U+0268", "U+0269", "U+026A", "U+026B", "U+026C", "U+026D", "U+026E",
     "U+026F", "U+0270", "U+0271", "U+0272", "U+0273", "U+0274", "U+0275",
     "U+0276", "U+0277", "U+0278", "U+0279", "U+027A", "U+027B", "U+027C",
     "U+027D", "U+027E", "U+027F", "ʀ", "ʁ", "ʂ", "ʃ", "ʄ", "ʅ", "ʆ", "ʇ",
     "ʈ", "ʉ", "ʊ", "ʋ", "ʌ", "ʍ", "ʎ", "ʏ", "ʐ", "ʑ", "ʒ", "ʓ", "ʕ", "ʖ",
     "ʗ", "ʘ", "ʙ", "ʚ", "ʛ", "ʜ", "ʝ", "ʞ", "ʟ", "ʠ", "ʡ", "ʢ", "ʣ", "ʤ",
     "ʥ", "ʦ", "ʧ", "ʨ", "ʩ", "ʪ", "ʫ", "ʬ", "ʭ", "ʮ", "ʯ", "U+0371",
     "U+0373", "U+0377", "U+037B", "U+037C", "U+037D", "ΐ", "ά", "έ", "ή",
     "ί", "ΰ", "α", "β", "γ", "δ", "ε", "ζ", "η", "θ", "ι", "κ", "λ", "μ",
     "ν", "ξ", "ο", "π", "ρ", "ς", "σ", "τ", "υ", "φ", "χ", "ψ", "ω", "ϊ",
     "ϋ", "ό", "ύ", "ώ", "ϐ", "ϑ", "ϒ", "ϓ", "ϔ", "ϕ", "ϖ", "ϗ", "ϙ", "ϛ",
     "ϝ", "ϟ", "ϡ", "ϣ", "ϥ", "ϧ", "ϩ", "ϫ", "ϭ", "ϯ", "ϰ", "ϱ", "ϲ", "ϳ",
     "ϵ", "ϸ", "ϻ", "ϼ", "U+0430", "U+0431", "U+0432", "U+0433", "U+0434",
     "U+0435", "U+0436", "U+0437", "U+0438", "U+0439", "U+043A", "U+043B",
     "U+043C", "U+043D", "U+043E", "U+043F", "U+0440", "U+0441", "U+0442",
     "U+0443", "U+0444", "U+0445", "U+0446", "U+0447", "U+0448", "U+0449",
     "U+044A", "U+044B", "U+044C", "U+044D", "U+044E", "U+044F", "U+0450",
     "U+0451", "U+0452", "U+0453", "U+0454", "U+0455", "U+0456", "U+0457",
     "U+0458", "U+0459", "U+045A", "U+045B", "U+045C", "U+045D", "U+045E",
     "U+045F", "U+0461", "U+0463", "U+0465", "U+0467", "U+0469", "U+046B",
     "U+046D", "U+046F", "U+0471", "U+0473", "U+0475", "U+0477", "U+0479",
     "U+047B", "U+047D", "U+047F", "ҁ", "ҋ", "ҍ", "ҏ", "ґ", "ғ", "ҕ", "җ",
     "ҙ", "қ", "ҝ", "ҟ", "ҡ", "ң", "ҥ", "ҧ", "ҩ", "ҫ", "ҭ", "ү", "ұ", "ҳ",
     "ҵ", "ҷ", "ҹ", "һ", "ҽ", "ҿ", "ӂ", "ӄ", "ӆ", "ӈ", "ӊ", "ӌ", "ӎ", "ӏ",
     "ӑ", "ӓ", "ӕ", "ӗ", "ә", "ӛ", "ӝ", "ӟ", "ӡ", "ӣ", "ӥ", "ӧ", "ө", "ӫ",
     "ӭ", "ӯ", "ӱ", "ӳ", "ӵ", "ӷ", "ӹ", "ӻ", "ӽ", "ӿ", "U+0501", "U+0503",
     "U+0505", "U+0507", "U+0509", "U+050B", "U+050D", "U+050F", "U+0511",
     "U+0513", "U+0515", "U+0517", "U+0519", "U+051B", "U+051D", "U+051F",
     "U+0521", "U+0523", "U+0525", "U+0527", "U+0529", "U+052B", "U+052D",
     "U+052F", "U+0560", "U+0561", "U+0562", "U+0563", "U+0564", "U+0565",
     "U+0566", "U+0567", "U+0568", "U+0569", "U+056A", "U+056B", "U+056C",
     "U+056D", "U+056E", "U+056F", "U+0570", "U+0571", "U+0572", "U+0573",
     "U+0574", "U+0575", "U+0576", "U+0577", "U+0578", "U+0579", "U+057A",
     "U+057B", "U+057C", "U+057D", "U+057E", "U+057F", "ր", "ց", "ւ", "փ",
     "ք", "օ", "ֆ", "և", "ֈ", "ა", "ბ", "გ", "დ", "ე", "ვ", "ზ", "თ", "ი",
     "კ", "ლ", "მ", "ნ", "ო", "პ", "ჟ", "რ", "ს", "ტ", "უ", "ფ", "ქ", "ღ",
     "ყ", "შ", "ჩ", "ც", "ძ", "წ", "ჭ", "ხ", "ჯ", "ჰ", "ჱ", "ჲ", "ჳ", "ჴ",
     "ჵ", "ჶ", "ჷ", "ჸ", "ჹ", "ჺ", "ჽ", "ჾ", "ჿ", "ᏸ", "ᏹ", "ᏺ", "ᏻ", "ᏼ",
     "ᏽ", "ᲀ", "ᲁ", "ᲂ", "ᲃ", "ᲄ", "ᲅ", "ᲆ", "ᲇ", "ᲈ", "U+1D00", "U+1D01",
     "U+1D02", "U+1D03", "U+1D04", "U+1D05", "U+1D06", "U+1D07", "U+1D08",
     "U+1D09", "U+1D0A", "U+1D0B", "U+1D0C", "U+1D0D", "U+1D0E", "U+1D0F",
     "U+1D10", "U+1D11", "U+1D12", "U+1D13", "U+1D14", "U+1D15", "U+1D16",
     "U+1D17", "U+1D18", "U+1D19", "U+1D1A", "U+1D1B", "U+1D1C", "U+1D1D",
     "U+1D1E", "U+1D1F", "U+1D20", "U+1D21", "U+1D22", "U+1D23", "U+1D24",
     "U+1D25", "U+1D26", "U+1D27", "U+1D28", "U+1D29", "U+1D2A", "U+1D2B",
     "U+1D6B", "U+1D6C", "U+1D6D", "U+1D6E", "U+1D6F", "U+1D70", "U+1D71",
     "U+1D72", "U+1D73", "U+1D74", "U+1D75", "U+1D76", "U+1D77", "U+1D79",
     "U+1D7A", "U+1D7B", "U+1D7C", "U+1D7D", "U+1D7E", "U+1D7F", "ᶀ", "ᶁ",
     "ᶂ", "ᶃ", "ᶄ", "ᶅ", "ᶆ", "ᶇ", "ᶈ", "ᶉ", "ᶊ", "ᶋ", "ᶌ", "ᶍ", "ᶎ", "ᶏ",
     "ᶐ", "ᶑ", "ᶒ", "ᶓ", "ᶔ", "ᶕ", "ᶖ", "ᶗ", "ᶘ", "ᶙ", "ᶚ", "U+1E01",
     "U+1E03", "U+1E05", "U+1E07", "U+1E09", "U+1E0B", "U+1E0D", "U+1E0F",
     "U+1E11", "U+1E13", "U+1E15", "U+1E17", "U+1E19", "U+1E1B", "U+1E1D",
     "U+1E1F", "U+1E21", "U+1E23", "U+1E25", "U+1E27", "U+1E29", "U+1E2B",
     "U+1E2D", "U+1E2F", "U+1E31", "U+1E33", "U+1E35", "U+1E37", "U+1E39",
     "U+1E3B", "U+1E3D", "U+1E3F", "U+1E41", "U+1E43", "U+1E45", "U+1E47",
     "U+1E49", "U+1E4B", "U+1E4D", "U+1E4F", "U+1E51", "U+1E53", "U+1E55",
     "U+1E57", "U+1E59", "U+1E5B", "U+1E5D", "U+1E5F", "U+1E61", "U+1E63",
     "U+1E65", "U+1E67", "U+1E69", "U+1E6B", "U+1E6D", "U+1E6F", "U+1E71",
     "U+1E73", "U+1E75", "U+1E77", "U+1E79", "U+1E7B", "U+1E7D", "U+1E7F",
     "ẁ", "ẃ", "ẅ", "ẇ", "ẉ", "ẋ", "ẍ", "ẏ", "ẑ", "ẓ", "ẕ", "ẖ", "ẗ", "ẘ",
     "ẙ", "ẚ", "ẛ", "ẜ", "ẝ", "ẟ", "ạ", "ả", "ấ", "ầ", "ẩ", "ẫ", "ậ", "ắ",
     "ằ", "ẳ", "ẵ", "ặ", "ẹ", "ẻ", "ẽ", "ế", "ề", "ể", "ễ", "ệ", "ỉ", "ị",
     "ọ", "ỏ", "ố", "ồ", "ổ", "ỗ", "ộ", "ớ", "ờ", "ở", "ỡ", "ợ", "ụ", "ủ",
     "ứ", "ừ", "ử", "ữ", "ự", "ỳ", "ỵ", "ỷ", "ỹ", "ỻ", "ỽ", "ỿ", "U+1F00",
     "U+1F01", "U+1F02", "U+1F03", "U+1F04", "U+1F05", "U+1F06", "U+1F07",
     "U+1F10", "U+1F11", "U+1F12", "U+1F13", "U+1F14", "U+1F15", "U+1F20",
     "U+1F21", "U+1F22", "U+1F23", "U+1F24", "U+1F25", "U+1F26", "U+1F27",
     "U+1F30", "U+1F31", "U+1F32", "U+1F33", "U+1F34", "U+1F35", "U+1F36",
     "U+1F37", "U+1F40", "U+1F41", "U+1F42", "U+1F43", "U+1F44", "U+1F45",
     "U+1F50", "U+1F51", "U+1F52", "U+1F53", "U+1F54", "U+1F55", "U+1F56",
     "U+1F57", "U+1F60", "U+1F61", "U+1F62", "U+1F63", "U+1F64", "U+1F65",
     "U+1F66", "U+1F67", "U+1F70", "U+1F71", "U+1F72", "U+1F73", "U+1F74",
     "U+1F75", "U+1F76", "U+1F77", "U+1F78", "U+1F79", "U+1F7A", "U+1F7B",
     "U+1F7C", "U+1F7D", "ᾀ", "ᾁ", "ᾂ", "ᾃ", "ᾄ", "ᾅ", "ᾆ", "ᾇ", "ᾐ", "ᾑ",
     "ᾒ", "ᾓ", "ᾔ", "ᾕ", "ᾖ", "ᾗ", "ᾠ", "ᾡ", "ᾢ", "ᾣ", "ᾤ", "ᾥ", "ᾦ", "ᾧ",
     "ᾰ", "ᾱ", "ᾲ", "ᾳ", "ᾴ", "ᾶ", "ᾷ", "ι", "ῂ", "ῃ", "ῄ", "ῆ", "ῇ", "ῐ",
     "ῑ", "ῒ", "ΐ", "ῖ", "ῗ", "ῠ", "ῡ", "ῢ", "ΰ", "ῤ", "ῥ", "ῦ", "ῧ", "ῲ",
     "ῳ", "ῴ", "ῶ", "ῷ", "U+2102", "U+2107", "U+210A", "U+210B", "U+210C",
     "U+210D", "U+210E", "U+210F", "U+2110", "U+2111", "U+2112", "U+2113",
     "U+2115", "U+2119", "U+211A", "U+211B", "U+211C", "U+211D", "U+2124",
     "U+2128", "U+212C", "U+212D", "U+212F", "U+2130", "U+2131", "U+2133",
     "U+2134", "U+2139", "U+213C", "U+213D", "U+213E", "U+213F", "U+2145",
     "U+2146", "U+2147", "U+2148", "U+2149", "U+214E", "U+2170", "U+2171",
     "U+2172", "U+2173", "U+2174", "U+2175", "U+2176", "U+2177", "U+2178",
     "U+2179", "U+217A", "U+217B", "U+217C", "U+217D", "U+217E", "U+217F",
     "ↄ", "ⓐ", "ⓑ", "ⓒ", "ⓓ", "ⓔ", "ⓕ", "ⓖ", "ⓗ", "ⓘ", "ⓙ", "ⓚ", "ⓛ", "ⓜ",
     "ⓝ", "ⓞ", "ⓟ", "ⓠ", "ⓡ", "ⓢ", "ⓣ", "ⓤ", "ⓥ", "ⓦ", "ⓧ", "ⓨ", "ⓩ",
     "U+2C30", "U+2C31", "U+2C32", "U+2C33", "U+2C34", "U+2C35", "U+2C36",
     "U+2C37", "U+2C38", "U+2C39", "U+2C3A", "U+2C3B", "U+2C3C", "U+2C3D",
     "U+2C3E", "U+2C3F", "U+2C40", "U+2C41", "U+2C42", "U+2C43", "U+2C44",
     "U+2C45", "U+2C46", "U+2C47", "U+2C48", "U+2C49", "U+2C4A", "U+2C4B",
     "U+2C4C", "U+2C4D", "U+2C4E", "U+2C4F", "U+2C50", "U+2C51", "U+2C52",
     "U+2C53", "U+2C54", "U+2C55", "U+2C56", "U+2C57", "U+2C58", "U+2C59",
     "U+2C5A", "U+2C5B", "U+2C5C", "U+2C5D", "U+2C5E", "U+2C5F", "U+2C61",
     "U+2C65", "U+2C66", "U+2C68", "U+2C6A", "U+2C6C", "U+2C71", "U+2C73",
     "U+2C74", "U+2C76", "U+2C77", "U+2C78", "U+2C79", "U+2C7A", "U+2C7B",
     "ⲁ", "ⲃ", "ⲅ", "ⲇ", "ⲉ", "ⲋ", "ⲍ", "ⲏ", "ⲑ", "ⲓ", "ⲕ", "ⲗ", "ⲙ", "ⲛ",
     "ⲝ", "ⲟ", "ⲡ", "ⲣ", "ⲥ", "ⲧ", "ⲩ", "ⲫ", "ⲭ", "ⲯ", "ⲱ", "ⲳ", "ⲵ", "ⲷ",
     "ⲹ", "ⲻ", "ⲽ", "ⲿ", "ⳁ", "ⳃ", "ⳅ", "ⳇ", "ⳉ", "ⳋ", "ⳍ", "ⳏ", "ⳑ", "ⳓ",
     "ⳕ", "ⳗ", "ⳙ", "ⳛ", "ⳝ", "ⳟ", "ⳡ", "ⳣ", "ⳤ", "ⳬ", "ⳮ", "ⳳ", "U+2D00",
     "U+2D01", "U+2D02", "U+2D03", "U+2D04", "U+2D05", "U+2D06", "U+2D07",
     "U+2D08", "U+2D09", "U+2D0A", "U+2D0B", "U+2D0C", "U+2D0D", "U+2D0E",
     "U+2D0F", "U+2D10", "U+2D11", "U+2D12", "U+2D13", "U+2D14", "U+2D15",
     "U+2D16", "U+2D17", "U+2D18", "U+2D19", "U+2D1A", "U+2D1B", "U+2D1C",
     "U+2D1D", "U+2D1E", "U+2D1F", "U+2D20", "U+2D21", "U+2D22", "U+2D23",
     "U+2D24", "U+2D25", "U+2D27", "U+2D2D", "U+A641", "U+A643", "U+A645",
     "U+A647", "U+A649", "U+A64B", "U+A64D", "U+A64F", "U+A651", "U+A653",
     "U+A655", "U+A657", "U+A659", "U+A65B", "U+A65D", "U+A65F", "U+A661",
     "U+A663", "U+A665", "U+A667", "U+A669", "U+A66B", "U+A66D", "ꚁ", "ꚃ",
     "ꚅ", "ꚇ", "ꚉ", "ꚋ", "ꚍ", "ꚏ", "ꚑ", "ꚓ", "ꚕ", "ꚗ", "ꚙ", "ꚛ", "U+A723",
     "U+A725", "U+A727", "U+A729", "U+A72B", "U+A72D", "U+A72F", "U+A730",
     "U+A731", "U+A733", "U+A735", "U+A737", "U+A739", "U+A73B", "U+A73D",
     "U+A73F", "U+A741", "U+A743", "U+A745", "U+A747", "U+A749", "U+A74B",
     "U+A74D", "U+A74F", "U+A751", "U+A753", "U+A755", "U+A757", "U+A759",
     "U+A75B", "U+A75D", "U+A75F", "U+A761", "U+A763", "U+A765", "U+A767",
     "U+A769", "U+A76B", "U+A76D", "U+A76F", "U+A771", "U+A772", "U+A773",
     "U+A774", "U+A775", "U+A776", "U+A777", "U+A778", "U+A77A", "U+A77C",
     "U+A77F", "ꞁ", "ꞃ", "ꞅ", "ꞇ", "ꞌ", "ꞎ", "ꞑ", "ꞓ", "ꞔ", "ꞕ", "ꞗ", "ꞙ",
     "ꞛ", "ꞝ", "ꞟ", "ꞡ", "ꞣ", "ꞥ", "ꞧ", "ꞩ", "ꞯ", "ꞵ", "ꞷ", "ꞹ", "ꞻ", "ꞽ",
     "ꞿ", "ꟁ", "ꟃ", "ꟈ", "ꟊ", "ꟑ", "ꟓ", "ꟕ", "ꟗ", "ꟙ", "ꟶ", "ꟺ", "U+AB30",
     "U+AB31", "U+AB32", "U+AB33", "U+AB34", "U+AB35", "U+AB36", "U+AB37",
     "U+AB38", "U+AB39", "U+AB3A", "U+AB3B", "U+AB3C", "U+AB3D", "U+AB3E",
     "U+AB3F", "U+AB40", "U+AB41", "U+AB42", "U+AB43", "U+AB44", "U+AB45",
     "U+AB46", "U+AB47", "U+AB48", "U+AB49", "U+AB4A", "U+AB4B", "U+AB4C",
     "U+AB4D", "U+AB4E", "U+AB4F", "U+AB50", "U+AB51", "U+AB52", "U+AB53",
     "U+AB54", "U+AB55", "U+AB56", "U+AB57", "U+AB58", "U+AB59", "U+AB5A",
     "U+AB60", "U+AB61", "U+AB62", "U+AB63", "U+AB64", "U+AB65", "U+AB66",
     "U+AB67", "U+AB68", "U+AB70", "U+AB71", "U+AB72", "U+AB73", "U+AB74",
     "U+AB75", "U+AB76", "U+AB77", "U+AB78", "U+AB79", "U+AB7A", "U+AB7B",
     "U+AB7C", "U+AB7D", "U+AB7E", "U+AB7F", "ꮀ", "ꮁ", "ꮂ", "ꮃ", "ꮄ", "ꮅ",
     "ꮆ", "ꮇ", "ꮈ", "ꮉ", "ꮊ", "ꮋ", "ꮌ", "ꮍ", "ꮎ", "ꮏ", "ꮐ", "ꮑ", "ꮒ", "ꮓ",
     "ꮔ", "ꮕ", "ꮖ", "ꮗ", "ꮘ", "ꮙ", "ꮚ", "ꮛ", "ꮜ", "ꮝ", "ꮞ", "ꮟ", "ꮠ", "ꮡ",
     "ꮢ", "ꮣ", "ꮤ", "ꮥ", "ꮦ", "ꮧ", "ꮨ", "ꮩ", "ꮪ", "ꮫ", "ꮬ", "ꮭ", "ꮮ", "ꮯ",
     "ꮰ", "ꮱ", "ꮲ", "ꮳ", "ꮴ", "ꮵ", "ꮶ", "ꮷ", "ꮸ", "ꮹ", "ꮺ", "ꮻ", "ꮼ", "ꮽ",
     "ꮾ", "ꮿ", "U+FB00", "U+FB01", "U+FB02", "U+FB03", "U+FB04", "U+FB05",
     "U+FB06", "U+FB13", "U+FB14", "U+FB15", "U+FB16", "U+FB17", "U+FF41",
     "U+FF42", "U+FF43", "U+FF44", "U+FF45", "U+FF46", "U+FF47", "U+FF48",
     "U+FF49", "U+FF4A", "U+FF4B", "U+FF4C", "U+FF4D", "U+FF4E", "U+FF4F",
     "U+FF50", "U+FF51", "U+FF52", "U+FF53", "U+FF54", "U+FF55", "U+FF56",
     "U+FF57", "U+FF58", "U+FF59", "U+FF5A", "U+10428", "U+10429", "U+1042A",
     "U+1042B", "U+1042C", "U+1042D", "U+1042E", "U+1042F", "U+10430",
     "U+10431", "U+10432", "U+10433", "U+10434", "U+10435", "U+10436",
     "U+10437", "U+10438", "U+10439", "U+1043A", "U+1043B", "U+1043C",
     "U+1043D", "U+1043E", "U+1043F", "U+10440", "U+10441", "U+10442",
     "U+10443", "U+10444", "U+10445", "U+10446", "U+10447", "U+10448",
     "U+10449", "U+1044A", "U+1044B", "U+1044C", "U+1044D", "U+1044E",
     "U+1044F", "U+104D8", "U+104D9", "U+104DA", "U+104DB", "U+104DC",
     "U+104DD", "U+104DE", "U+104DF", "U+104E0", "U+104E1", "U+104E2",
     "U+104E3", "U+104E4", "U+104E5", "U+104E6", "U+104E7", "U+104E8",
     "U+104E9", "U+104EA", "U+104EB", "U+104EC", "U+104ED", "U+104EE",
     "U+104EF", "U+104F0", "U+104F1", "U+104F2", "U+104F3", "U+104F4",
     "U+104F5", "U+104F6", "U+104F7", "U+104F8", "U+104F9", "U+104FA",
     "U+104FB", "U+10597", "U+10598", "U+10599", "U+1059A", "U+1059B",
     "U+1059C", "U+1059D", "U+1059E", "U+1059F", "U+105A0", "U+105A1",
     "U+105A3", "U+105A4", "U+105A5", "U+105A6", "U+105A7", "U+105A8",
     "U+105A9", "U+105AA", "U+105AB", "U+105AC", "U+105AD", "U+105AE",
     "U+105AF", "U+105B0", "U+105B1", "U+105B3", "U+105B4", "U+105B5",
     "U+105B6", "U+105B7", "U+105B8", "U+105B9", "U+105BB", "U+105BC",
     "U+10CC0", "U+10CC1", "U+10CC2", "U+10CC3", "U+10CC4", "U+10CC5",
     "U+10CC6", "U+10CC7", "U+10CC8", "U+10CC9", "U+10CCA", "U+10CCB",
     "U+10CCC", "U+10CCD", "U+10CCE", "U+10CCF", "U+10CD0", "U+10CD1",
     "U+10CD2", "U+10CD3", "U+10CD4", "U+10CD5", "U+10CD6", "U+10CD7",
     "U+10CD8", "U+10CD9", "U+10CDA", "U+10CDB", "U+10CDC", "U+10CDD",
     "U+10CDE", "U+10CDF", "U+10CE0", "U+10CE1", "U+10CE2", "U+10CE3",
     "U+10CE4", "U+10CE5", "U+10CE6", "U+10CE7", "U+10CE8", "U+10CE9",
     "U+10CEA", "U+10CEB", "U+10CEC", "U+10CED", "U+10CEE", "U+10CEF",
     "U+10CF0", "U+10CF1", "U+10CF2", "U+118C0", "U+118C1", "U+118C2",
     "U+118C3", "U+118C4", "U+118C5", "U+118C6", "U+118C7", "U+118C8",
     "U+118C9", "U+118CA", "U+118CB", "U+118CC", "U+118CD", "U+118CE",
     "U+118CF", "U+118D0", "U+118D1", "U+118D2", "U+118D3", "U+118D4",
     "U+118D5", "U+118D6", "U+118D7", "U+118D8", "U+118D9", "U+118DA",
     "U+118DB", "U+118DC", "U+118DD", "U+118DE", "U+118DF", "U+16E60",
     "U+16E61", "U+16E62", "U+16E63", "U+16E64", "U+16E65", "U+16E66",
     "U+16E67", "U+16E68", "U+16E69", "U+16E6A", "U+16E6B", "U+16E6C",
     "U+16E6D", "U+16E6E", "U+16E6F", "U+16E70", "U+16E71", "U+16E72",
     "U+16E73", "U+16E74", "U+16E75", "U+16E76", "U+16E77", "U+16E78",
     "U+16E79", "U+16E7A", "U+16E7B", "U+16E7C", "U+16E7D", "U+16E7E",
     "U+16E7F", "U+1D400", "U+1D401", "U+1D402", "U+1D403", "U+1D404",
     "U+1D405", "U+1D406", "U+1D407", "U+1D408", "U+1D409", "U+1D40A",
     "U+1D40B", "U+1D40C", "U+1D40D", "U+1D40E", "U+1D40F", "U+1D410",
     "U+1D411", "U+1D412", "U+1D413", "U+1D414", "U+1D415", "U+1D416",
     "U+1D417", "U+1D418", "U+1D419", "U+1D41A", "U+1D41B", "U+1D41C",
     "U+1D41D", "U+1D41E", "U+1D41F", "U+1D420", "U+1D421", "U+1D422",
     "U+1D423", "U+1D424", "U+1D425", "U+1D426", "U+1D427", "U+1D428",
     "U+1D429", "U+1D42A", "U+1D42B", "U+1D42C", "U+1D42D", "U+1D42E",
     "U+1D42F", "U+1D430", "U+1D431", "U+1D432", "U+1D433", "U+1D434",
     "U+1D435", "U+1D436", "U+1D437", "U+1D438", "U+1D439", "U+1D43A",
     "U+1D43B", "U+1D43C", "U+1D43D", "U+1D43E", "U+1D43F", "U+1D440",
     "U+1D441", "U+1D442", "U+1D443", "U+1D444", "U+1D445", "U+1D446",
     "U+1D447", "U+1D448", "U+1D449", "U+1D44A", "U+1D44B", "U+1D44C",
     "U+1D44D", "U+1D44E", "U+1D44F", "U+1D450", "U+1D451", "U+1D452",
     "U+1D453", "U+1D454", "U+1D456", "U+1D457", "U+1D458", "U+1D459",
     "U+1D45A", "U+1D45B", "U+1D45C", "U+1D45D", "U+1D45E", "U+1D45F",
     "U+1D460", "U+1D461", "U+1D462", "U+1D463", "U+1D464", "U+1D465",
     "U+1D466", "U+1D467", "U+1D468", "U+1D469", "U+1D46A", "U+1D46B",
     "U+1D46C", "U+1D46D", "U+1D46E", "U+1D46F", "U+1D470", "U+1D471",
     "U+1D472", "U+1D473", "U+1D474", "U+1D475", "U+1D476", "U+1D477",
     "U+1D478", "U+1D479", "U+1D47A", "U+1D47B", "U+1D47C", "U+1D47D",
     "U+1D47E", "U+1D47F", "U+1D480", "U+1D481", "U+1D482", "U+1D483",
     "U+1D484", "U+1D485", "U+1D486", "U+1D487", "U+1D488", "U+1D489",
     "U+1D48A", "U+1D48B", "U+1D48C", "U+1D48D", "U+1D48E", "U+1D48F",
     "U+1D490", "U+1D491", "U+1D492", "U+1D493", "U+1D494", "U+1D495",
     "U+1D496", "U+1D497", "U+1D498", "U+1D499", "U+1D49A", "U+1D49B",
     "U+1D49C", "U+1D49E", "U+1D49F", "U+1D4A2", "U+1D4A5", "U+1D4A6",
     "U+1D4A9", "U+1D4AA", "U+1D4AB", "U+1D4AC", "U+1D4AE", "U+1D4AF",
     "U+1D4B0", "U+1D4B1", "U+1D4B2", "U+1D4B3", "U+1D4B4", "U+1D4B5",
     "U+1D4B6", "U+1D4B7", "U+1D4B8", "U+1D4B9", "U+1D4BB", "U+1D4BD",
     "U+1D4BE", "U+1D4BF", "U+1D4C0", "U+1D4C1", "U+1D4C2", "U+1D4C3",
     "U+1D4C5", "U+1D4C6", "U+1D4C7", "U+1D4C8", "U+1D4C9", "U+1D4CA",
     "U+1D4CB", "U+1D4CC", "U+1D4CD", "U+1D4CE", "U+1D4CF", "U+1D4D0",
     "U+1D4D1", "U+1D4D2", "U+1D4D3", "U+1D4D4", "U+1D4D5", "U+1D4D6",
     "U+1D4D7", "U+1D4D8", "U+1D4D9", "U+1D4DA", "U+1D4DB", "U+1D4DC",
     "U+1D4DD", "U+1D4DE", "U+1D4DF", "U+1D4E0", "U+1D4E1", "U+1D4E2",
     "U+1D4E3", "U+1D4E4", "U+1D4E5", "U+1D4E6", "U+1D4E7", "U+1D4E8",
     "U+1D4E9", "U+1D4EA", "U+1D4EB", "U+1D4EC", "U+1D4ED", "U+1D4EE",
     "U+1D4EF", "U+1D4F0", "U+1D4F1", "U+1D4F2", "U+1D4F3", "U+1D4F4",
     "U+1D4F5", "U+1D4F6", "U+1D4F7", "U+1D4F8", "U+1D4F9", "U+1D4FA",
     "U+1D4FB", "U+1D4FC", "U+1D4FD", "U+1D4FE", "U+1D4FF", "U+1D500",
     "U+1D501", "U+1D502", "U+1D503", "U+1D504", "U+1D505", "U+1D507",
     "U+1D508", "U+1D509", "U+1D50A", "U+1D50D", "U+1D50E", "U+1D50F",
     "U+1D510", "U+1D511", "U+1D512", "U+1D513", "U+1D514", "U+1D516",
     "U+1D517", "U+1D518", "U+1D519", "U+1D51A", "U+1D51B", "U+1D51C",
     "U+1D51E", "U+1D51F", "U+1D520", "U+1D521", "U+1D522", "U+1D523",
     "U+1D524", "U+1D525", "U+1D526", "U+1D527", "U+1D528", "U+1D529",
     "U+1D52A", "U+1D52B", "U+1D52C", "U+1D52D", "U+1D52E", "U+1D52F",
     "U+1D530", "U+1D531", "U+1D532", "U+1D533", "U+1D534", "U+1D535",
     "U+1D536", "U+1D537", "U+1D538", "U+1D539", "U+1D53B", "U+1D53C",
     "U+1D53D", "U+1D53E", "U+1D540", "U+1D541", "U+1D542", "U+1D543",
     "U+1D544", "U+1D546", "U+1D54A", "U+1D54B", "U+1D54C", "U+1D54D",
     "U+1D54E", "U+1D54F", "U+1D550", "U+1D552", "U+1D553", "U+1D554",
     "U+1D555", "U+1D556", "U+1D557", "U+1D558", "U+1D559", "U+1D55A",
     "U+1D55B", "U+1D55C", "U+1D55D", "U+1D55E", "U+1D55F", "U+1D560",
     "U+1D561", "U+1D562", "U+1D563", "U+1D564", "U+1D565", "U+1D566",
     "U+1D567", "U+1D568", "U+1D569", "U+1D56A", "U+1D56B", "U+1D56C",
     "U+1D56D", "U+1D56E", "U+1D56F", "U+1D570", "U+1D571", "U+1D572",
     "U+1D573", "U+1D574", "U+1D575", "U+1D576", "U+1D577", "U+1D578",
     "U+1D579", "U+1D57A", "U+1D57B", "U+1D57C", "U+1D57D", "U+1D57E",
     "U+1D57F", "U+1D580", "U+1D581", "U+1D582", "U+1D583", "U+1D584",
     "U+1D585", "U+1D586", "U+1D587", "U+1D588", "U+1D589", "U+1D58A",
     "U+1D58B", "U+1D58C", "U+1D58D", "U+1D58E", "U+1D58F", "U+1D590",
     "U+1D591", "U+1D592", "U+1D593", "U+1D594", "U+1D595", "U+1D596",
     "U+1D597", "U+1D598", "U+1D599", "U+1D59A", "U+1D59B", "U+1D59C",
     "U+1D59D", "U+1D59E", "U+1D59F", "U+1D5A0", "U+1D5A1", "U+1D5A2",
     "U+1D5A3", "U+1D5A4", "U+1D5A5", "U+1D5A6", "U+1D5A7", "U+1D5A8",
     "U+1D5A9", "U+1D5AA", "U+1D5AB", "U+1D5AC", "U+1D5AD", "U+1D5AE",
     "U+1D5AF", "U+1D5B0", "U+1D5B1", "U+1D5B2", "U+1D5B3", "U+1D5B4",
     "U+1D5B5", "U+1D5B6", "U+1D5B7", "U+1D5B8", "U+1D5B9", "U+1D5BA",
     "U+1D5BB", "U+1D5BC", "U+1D5BD", "U+1D5BE", "U+1D5BF", "U+1D5C0",
     "U+1D5C1", "U+1D5C2", "U+1D5C3", "U+1D5C4", "U+1D5C5", "U+1D5C6",
     "U+1D5C7", "U+1D5C8", "U+1D5C9", "U+1D5CA", "U+1D5CB", "U+1D5CC",
     "U+1D5CD", "U+1D5CE", "U+1D5CF", "U+1D5D0", "U+1D5D1", "U+1D5D2",
     "U+1D5D3", "U+1D5D4", "U+1D5D5", "U+1D5D6", "U+1D5D7", "U+1D5D8",
     "U+1D5D9", "U+1D5DA", "U+1D5DB", "U+1D5DC", "U+1D5DD", "U+1D5DE",
     "U+1D5DF", "U+1D5E0", "U+1D5E1", "U+1D5E2", "U+1D5E3", "U+1D5E4",
     "U+1D5E5", "U+1D5E6", "U+1D5E7", "U+1D5E8", "U+1D5E9", "U+1D5EA",
     "U+1D5EB", "U+1D5EC", "U+1D5ED", "U+1D5EE", "U+1D5EF", "U+1D5F0",
     "U+1D5F1", "U+1D5F2", "U+1D5F3", "U+1D5F4", "U+1D5F5", "U+1D5F6",
     "U+1D5F7", "U+1D5F8", "U+1D5F9", "U+1D5FA", "U+1D5FB", "U+1D5FC",
     "U+1D5FD", "U+1D5FE", "U+1D5FF", "U+1D600", "U+1D601", "U+1D602",
     "U+1D603", "U+1D604", "U+1D605", "U+1D606", "U+1D607", "U+1D608",
     "U+1D609", "U+1D60A", "U+1D60B", "U+1D60C", "U+1D60D", "U+1D60E",
     "U+1D60F", "U+1D610", "U+1D611", "U+1D612", "U+1D613", "U+1D614",
     "U+1D615", "U+1D616", "U+1D617", "U+1D618", "U+1D619", "U+1D61A",
     "U+1D61B", "U+1D61C", "U+1D61D", "U+1D61E", "U+1D61F", "U+1D620",
     "U+1D621", "U+1D622", "U+1D623", "U+1D624", "U+1D625", "U+1D626",
     "U+1D627", "U+1D628", "U+1D629", "U+1D62A", "U+1D62B", "U+1D62C",
     "U+1D62D", "U+1D62E", "U+1D62F", "U+1D630", "U+1D631", "U+1D632",
     "U+1D633", "U+1D634", "U+1D635", "U+1D636", "U+1D637", "U+1D638",
     "U+1D639", "U+1D63A", "U+1D63B", "U+1D63C", "U+1D63D", "U+1D63E",
     "U+1D63F", "U+1D640", "U+1D641", "U+1D642", "U+1D643", "U+1D644",
     "U+1D645", "U+1D646", "U+1D647", "U+1D648", "U+1D649", "U+1D64A",
     "U+1D64B", "U+1D64C", "U+1D64D", "U+1D64E", "U+1D64F", "U+1D650",
     "U+1D651", "U+1D652", "U+1D653", "U+1D654", "U+1D655", "U+1D656",
     "U+1D657", "U+1D658", "U+1D659", "U+1D65A", "U+1D65B", "U+1D65C",
     "U+1D65D", "U+1D65E", "U+1D65F", "U+1D660", "U+1D661", "U+1D662",
     "U+1D663", "U+1D664", "U+1D665", "U+1D666", "U+1D667", "U+1D668",
     "U+1D669", "U+1D66A", "U+1D66B", "U+1D66C", "U+1D66D", "U+1D66E",
     "U+1D66F", "U+1D670", "U+1D671", "U+1D672", "U+1D673", "U+1D674",
     "U+1D675", "U+1D676", "U+1D677", "U+1D678", "U+1D679", "U+1D67A",
     "U+1D67B", "U+1D67C", "U+1D67D", "U+1D67E", "U+1D67F", "U+1D680",
     "U+1D681", "U+1D682", "U+1D683", "U+1D684", "U+1D685", "U+1D686",
     "U+1D687", "U+1D688", "U+1D689", "U+1D68A", "U+1D68B", "U+1D68C",
     "U+1D68D", "U+1D68E", "U+1D68F", "U+1D690", "U+1D691", "U+1D692",
     "U+1D693", "U+1D694", "U+1D695", "U+1D696", "U+1D697", "U+1D698",
     "U+1D699", "U+1D69A", "U+1D69B", "U+1D69C", "U+1D69D", "U+1D69E",
     "U+1D69F", "U+1D6A0", "U+1D6A1", "U+1D6A2", "U+1D6A3", "U+1D6A4",
     "U+1D6A5", "U+1D6A8", "U+1D6A9", "U+1D6AA", "U+1D6AB", "U+1D6AC",
     "U+1D6AD", "U+1D6AE", "U+1D6AF", "U+1D6B0", "U+1D6B1", "U+1D6B2",
     "U+1D6B3", "U+1D6B4", "U+1D6B5", "U+1D6B6", "U+1D6B7", "U+1D6B8",
     "U+1D6B9", "U+1D6BA", "U+1D6BB", "U+1D6BC", "U+1D6BD", "U+1D6BE",
     "U+1D6BF", "U+1D6C0", "U+1D6C2", "U+1D6C3", "U+1D6C4", "U+1D6C5",
     "U+1D6C6", "U+1D6C7", "U+1D6C8", "U+1D6C9", "U+1D6CA", "U+1D6CB",
     "U+1D6CC", "U+1D6CD", "U+1D6CE", "U+1D6CF", "U+1D6D0", "U+1D6D1",
     "U+1D6D2", "U+1D6D3", "U+1D6D4", "U+1D6D5", "U+1D6D6", "U+1D6D7",
     "U+1D6D8", "U+1D6D9", "U+1D6DA", "U+1D6DC", "U+1D6DD", "U+1D6DE",
     "U+1D6DF", "U+1D6E0", "U+1D6E1", "U+1D6E2", "U+1D6E3", "U+1D6E4",
     "U+1D6E5", "U+1D6E6", "U+1D6E7", "U+1D6E8", "U+1D6E9", "U+1D6EA",
     "U+1D6EB", "U+1D6EC", "U+1D6ED", "U+1D6EE", "U+1D6EF", "U+1D6F0",
     "U+1D6F1", "U+1D6F2", "U+1D6F3", "U+1D6F4", "U+1D6F5", "U+1D6F6",
     "U+1D6F7", "U+1D6F8", "U+1D6F9", "U+1D6FA", "U+1D6FC", "U+1D6FD",
     "U+1D6FE", "U+1D6FF", "U+1D700", "U+1D701", "U+1D702", "U+1D703",
     "U+1D704", "U+1D705", "U+1D706", "U+1D707", "U+1D708", "U+1D709",
     "U+1D70A", "U+1D70B", "U+1D70C", "U+1D70D", "U+1D70E", "U+1D70F",
     "U+1D710", "U+1D711", "U+1D712", "U+1D713", "U+1D714", "U+1D716",
     "U+1D717", "U+1D718", "U+1D719", "U+1D71A", "U+1D71B", "U+1D71C",
     "U+1D71D", "U+1D71E", "U+1D71F", "U+1D720", "U+1D721", "U+1D722",
     "U+1D723", "U+1D724", "U+1D725", "U+1D726", "U+1D727", "U+1D728",
     "U+1D729", "U+1D72A", "U+1D72B", "U+1D72C", "U+1D72D", "U+1D72E",
     "U+1D72F", "U+1D730", "U+1D731", "U+1D732", "U+1D733", "U+1D734",
     "U+1D736", "U+1D737", "U+1D738", "U+1D739", "U+1D73A", "U+1D73B",
     "U+1D73C", "U+1D73D", "U+1D73E", "U+1D73F", "U+1D740", "U+1D741",
     "U+1D742", "U+1D743", "U+1D744", "U+1D745", "U+1D746", "U+1D747",
     "U+1D748", "U+1D749", "U+1D74A", "U+1D74B", "U+1D74C", "U+1D74D",
     "U+1D74E", "U+1D750", "U+1D751", "U+1D752", "U+1D753", "U+1D754",
     "U+1D755", "U+1D756", "U+1D757", "U+1D758", "U+1D759", "U+1D75A",
     "U+1D75B", "U+1D75C", "U+1D75D", "U+1D75E", "U+1D75F", "U+1D760",
     "U+1D761", "U+1D762", "U+1D763", "U+1D764", "U+1D765", "U+1D766",
     "U+1D767", "U+1D768", "U+1D769", "U+1D76A", "U+1D76B", "U+1D76C",
     "U+1D76D", "U+1D76E", "U+1D770", "U+1D771", "U+1D772", "U+1D773",
     "U+1D774", "U+1D775", "U+1D776", "U+1D777", "U+1D778", "U+1D779",
     "U+1D77A", "U+1D77B", "U+1D77C", "U+1D77D", "U+1D77E", "U+1D77F",
     "U+1D780", "U+1D781", "U+1D782", "U+1D783", "U+1D784", "U+1D785",
     "U+1D786", "U+1D787", "U+1D788", "U+1D78A", "U+1D78B", "U+1D78C",
     "U+1D78D", "U+1D78E", "U+1D78F", "U+1D790", "U+1D791", "U+1D792",
     "U+1D793", "U+1D794", "U+1D795", "U+1D796", "U+1D797", "U+1D798",
     "U+1D799", "U+1D79A", "U+1D79B", "U+1D79C", "U+1D79D", "U+1D79E",
     "U+1D79F", "U+1D7A0", "U+1D7A1", "U+1D7A2", "U+1D7A3", "U+1D7A4",
     "U+1D7A5", "U+1D7A6", "U+1D7A7", "U+1D7A8", "U+1D7AA", "U+1D7AB",
     "U+1D7AC", "U+1D7AD", "U+1D7AE", "U+1D7AF", "U+1D7B0", "U+1D7B1",
     "U+1D7B2", "U+1D7B3", "U+1D7B4", "U+1D7B5", "U+1D7B6", "U+1D7B7",
     "U+1D7B8", "U+1D7B9", "U+1D7BA", "U+1D7BB", "U+1D7BC", "U+1D7BD",
     "U+1D7BE", "U+1D7BF", "U+1D7C0", "U+1D7C1", "U+1D7C2", "U+1D7C4",
     "U+1D7C5", "U+1D7C6", "U+1D7C7", "U+1D7C8", "U+1D7C9", "U+1D7CA",
     "U+1D7CB", "U+1DF00", "U+1DF01", "U+1DF02", "U+1DF03", "U+1DF04",
     "U+1DF05", "U+1DF06", "U+1DF07", "U+1DF08", "U+1DF09", "U+1DF0B",
     "U+1DF0C", "U+1DF0D", "U+1DF0E", "U+1DF0F", "U+1DF10", "U+1DF11",
     "U+1DF12", "U+1DF13", "U+1DF14", "U+1DF15", "U+1DF16", "U+1DF17",
     "U+1DF18", "U+1DF19", "U+1DF1A", "U+1DF1B", "U+1DF1C", "U+1DF1D",
     "U+1DF1E", "U+1E922", "U+1E923", "U+1E924", "U+1E925", "U+1E926",
     "U+1E927", "U+1E928", "U+1E929", "U+1E92A", "U+1E92B", "U+1E92C",
     "U+1E92D", "U+1E92E", "U+1E92F", "U+1E930", "U+1E931", "U+1E932",
     "U+1E933", "U+1E934", "U+1E935", "U+1E936", "U+1E937", "U+1E938",
     "U+1E939", "U+1E93A", "U+1E93B", "U+1E93C", "U+1E93D", "U+1E93E",
     "U+1E93F", "U+1E940", "U+1E941", "U+1E942", "U+1E943", "U+1F130",
     "U+1F131", "U+1F132", "U+1F133", "U+1F134", "U+1F135", "U+1F136",
     "U+1F137", "U+1F138", "U+1F139", "U+1F13A", "U+1F13B", "U+1F13C",
     "U+1F13D", "U+1F13E", "U+1F13F", "U+1F140", "U+1F141", "U+1F142",
     "U+1F143", "U+1F144", "U+1F145", "U+1F146", "U+1F147", "U+1F148",
     "U+1F149", "U+1F150", "U+1F151", "U+1F152", "U+1F153", "U+1F154",
     "U+1F155", "U+1F156", "U+1F157", "U+1F158", "U+1F159", "U+1F15A",
     "U+1F15B", "U+1F15C", "U+1F15D", "U+1F15E", "U+1F15F", "U+1F160",
     "U+1F161", "U+1F162", "U+1F163", "U+1F164", "U+1F165", "U+1F166",
     "U+1F167", "U+1F168", "U+1F169", "U+1F170", "U+1F171", "U+1F172",
     "U+1F173", "U+1F174", "U+1F175", "U+1F176", "U+1F177", "U+1F178",
     "U+1F179", "U+1F17A", "U+1F17B", "U+1F17C", "U+1F17D", "U+1F17E",
     "U+1F17F", "U+1F180", "U+1F181", "U+1F182", "U+1F183", "U+1F184",
     "U+1F185", "U+1F186", "U+1F187", "U+1F188", "U+1F189"}

\* the cased characters (none of those listed is case-ignorable)
Cased == Capitals \cup {"U+0130"} \cup Uncapital

\* the case-ignorable characters
CaseIgnorable ==
    {"'", ".", ":", "^", "U+0060", "¨", "­", "¯", "´", "·", "¸", "ʰ", "ʱ",
     "ʲ", "ʳ", "ʴ", "ʵ", "ʶ", "ʷ", "ʸ", "ʹ", "ʺ", "ʻ", "ʼ", "ʽ", "ʾ", "ʿ",
     "ˀ", "ˁ", "˂", "˃", "˄", "˅", "ˆ", "ˇ", "ˈ", "ˉ", "ˊ", "ˋ", "ˌ", "ˍ",
     "ˎ", "ˏ", "ː", "ˑ", "˒", "˓", "˔", "˕", "˖", "˗", "˘", "˙", "˚", "˛",
     "˜", "˝", "˞", "˟", "ˠ", "ˡ", "ˢ", "ˣ", "ˤ", "˥", "˦", "˧", "˨", "˩",
     "˪", "˫", "ˬ", "˭", "ˮ", "˯", "˰", "˱", "˲", "˳", "˴", "˵", "˶", "˷",
     "˸", "˹", "˺", "˻", "˼", "˽", "˾", "˿", "U+0300", "U+0301", "U+0302",
     "U+0303", "U+0304", "U+0305", "U+0306", "U+0307", "U+0308", "U+0309",
     "U+030A", "U+030B", "U+030C", "U+030D", "U+030E", "U+030F", "U+0310",
     "U+0311", "U+0312", "U+0313", "U+0314", "U+0315", "U+0316", "U+0317",
     "U+0318", "U+0319", "U+031A", "U+031B", "U+031C", "U+031D", "U+031E",
     "U+031F", "U+0320", "U+0321", "U+0322", "U+0323", "U+0324", "U+0325",
     "U+0326", "U+0327", "U+0328", "U+0329", "U+032A", "U+032B", "U+032C",
     "U+032D", "U+032E", "U+032F", "U+0330", "U+0331", "U+0332", "U+0333",
     "U+0334", "U+0335", "U+0336", "U+0337", "U+0338", "U+0339", "U+033A",
     "U+033B", "U+033C", "U+033D", "U+033E", "U+033F", "U+0340", "U+0341",
     "U+0342", "U+0343", "U+0344", "U+0345", "U+0346", "U+0347", "U+0348",
     "U+0349", "U+034A", "U+034B", "U+034C", "U+034D", "U+034E", "U+034F",
     "U+0350", "U+0351", "U+0352", "U+0353", "U+0354", "U+0355", "U+0356",
     "U+0357", "U+0358", "U+0359", "U+035A", "U+035B", "U+035C", "U+035D",
     "U+035E", "U+035F", "U+0360", "U+0361", "U+0362", "U+0363", "U+0364",
     "U+0365", "U+0366", "U+0367", "U+0368", "U+0369", "U+036A", "U+036B",
     "U+036C", "U+036D", "U+036E", "U+036F", "U+0374", "U+0375", "U+037A",
     "΄", "΅", "·", "҃", "҄", "҅", "҆", "҇", "҈", "҉", "U+0559", "U+055F",
     "֑", "֒", "֓", "֔", "֕", "֖", "֗", "֘", "֙", "֚", "֛", "֜", "֝", "֞",
     "֟", "֠", "֡", "֢", "֣", "֤", "֥", "֦", "֧", "֨", "֩", "֪", "֫", "֬",
     "֭", "֮", "֯", "ְ", "ֱ", "ֲ", "ֳ", "ִ", "ֵ", "ֶ", "ַ", "ָ", "ֹ", "ֺ",
     "ֻ", "ּ", "ֽ", "ֿ", "ׁ", "ׂ", "ׄ", "ׅ", "ׇ", "״", "U+0600", "U+0601",
     "U+0602", "U+0603", "U+0604", "U+0605", "U+0610", "U+0611", "U+0612",
     "U+0613", "U+0614", "U+0615", "U+0616", "U+0617", "U+0618", "U+0619",
     "U+061A", "U+061C", "U+0640", "U+064B", "U+064C", "U+064D", "U+064E",
     "U+064F", "U+0650", "U+0651", "U+0652", "U+0653", "U+0654", "U+0655",
     "U+0656", "U+0657", "U+0658", "U+0659", "U+065A", "U+065B", "U+065C",
     "U+065D", "U+065E", "U+065F", "U+0670", "ۖ", "ۗ", "ۘ", "ۙ", "ۚ", "ۛ",
     "ۜ", "۝", "۟", "۠", "ۡ", "ۢ", "ۣ", "ۤ", "ۥ", "ۦ", "ۧ", "ۨ", "۪", "۫",
     "۬", "ۭ", "U+070F", "U+0711", "U+0730", "U+0731", "U+0732", "U+0733",
     "U+0734", "U+0735", "U+0736", "U+0737", "U+0738", "U+0739", "U+073A",
     "U+073B", "U+073C", "U+073D", "U+073E", "U+073F", "U+0740", "U+0741",
     "U+0742", "U+0743", "U+0744", "U+0745", "U+0746", "U+0747", "U+0748",
     "U+0749", "U+074A", "ަ", "ާ", "ި", "ީ", "ު", "ޫ", "ެ", "ޭ", "ޮ", "ޯ",
     "ް", "߫", "߬", "߭", "߮", "߯", "߰", "߱", "߲", "߳", "ߴ", "ߵ", "ߺ", "߽",
     "U+0816", "U+0817", "U+0818", "U+0819", "U+081A", "U+081B", "U+081C",
     "U+081D", "U+081E", "U+081F", "U+0820", "U+0821", "U+0822", "U+0823",
     "U+0824", "U+0825", "U+0826", "U+0827", "U+0828", "U+0829", "U+082A",
     "U+082B", "U+082C", "U+082D", "U+0859", "U+085A", "U+085B", "࢈", "࢐",
     "࢑", "࢘", "࢙", "࢚", "࢛", "࢜", "࢝", "࢞", "࢟", "ࣉ", "࣊", "࣋", "࣌", "࣍",
     "࣎", "࣏", "࣐", "࣑", "࣒", "࣓", "ࣔ", "ࣕ", "ࣖ", "ࣗ", "ࣘ", "ࣙ", "ࣚ", "ࣛ",
     "ࣜ", "ࣝ", "ࣞ", "ࣟ", "࣠", "࣡", "࣢", "ࣣ", "ࣤ", "ࣥ", "ࣦ", "ࣧ", "ࣨ", "ࣩ",
     "࣪", "࣫", "࣬", "࣭", "࣮", "࣯", "ࣰ", "ࣱ", "ࣲ", "ࣳ", "ࣴ", "ࣵ", "ࣶ", "ࣷ",
     "ࣸ", "ࣹ", "ࣺ", "ࣻ", "ࣼ", "ࣽ", "ࣾ", "ࣿ", "U+0900", "U+0901", "U+0902",
     "U+093A", "U+093C", "U+0941", "U+0942", "U+0943", "U+0944", "U+0945",
     "U+0946", "U+0947", "U+0948", "U+094D", "U+0951", "U+0952", "U+0953",
     "U+0954", "U+0955", "U+0956", "U+0957", "U+0962", "U+0963", "U+0971",
     "ঁ", "়", "ু", "ূ", "ৃ", "ৄ", "্", "ৢ", "ৣ", "৾", "U+0A01", "U+0A02",
     "U+0A3C", "U+0A41", "U+0A42", "U+0A47", "U+0A48", "U+0A4B", "U+0A4C",
     "U+0A4D", "U+0A51", "U+0A70", "U+0A71", "U+0A75", "ઁ", "ં", "઼", "ુ",
     "ૂ", "ૃ", "ૄ", "ૅ", "ે", "ૈ", "્", "ૢ", "ૣ", "ૺ", "ૻ", "ૼ", "૽", "૾",
     "૿", "U+0B01", "U+0B3C", "U+0B3F", "U+0B41", "U+0B42", "U+0B43",
     "U+0B44", "U+0B4D", "U+0B55", "U+0B56", "U+0B62", "U+0B63", "ஂ", "ீ",
     "்", "U+0C00", "U+0C04", "U+0C3C", "U+0C3E", "U+0C3F", "U+0C40",
     "U+0C46", "U+0C47", "U+0C48", "U+0C4A", "U+0C4B", "U+0C4C", "U+0C4D",
     "U+0C55", "U+0C56", "U+0C62", "U+0C63", "ಁ", "಼", "ಿ", "ೆ", "ೌ", "್",
     "ೢ", "ೣ", "U+0D00", "U+0D01", "U+0D3B", "U+0D3C", "U+0D41", "U+0D42",
     "U+0D43", "U+0D44", "U+0D4D", "U+0D62", "U+0D63", "ඁ", "්", "ි", "ී",
     "ු", "ූ", "U+0E31", "U+0E34", "U+0E35", "U+0E36", "U+0E37", "U+0E38",
     "U+0E39", "U+0E3A", "U+0E46", "U+0E47", "U+0E48", "U+0E49", "U+0E4A",
     "U+0E4B", "U+0E4C", "U+0E4D", "U+0E4E", "ັ", "ິ", "ີ", "ຶ", "ື", "ຸ",
     "ູ", "຺", "ົ", "ຼ", "ໆ", "່", "້", "໊", "໋", "໌", "ໍ", "U+0F18",
     "U+0F19", "U+0F35", "U+0F37", "U+0F39", "U+0F71", "U+0F72", "U+0F73",
     "U+0F74", "U+0F75", "U+0F76", "U+0F77", "U+0F78", "U+0F79", "U+0F7A",
     "U+0F7B", "U+0F7C", "U+0F7D", "U+0F7E", "ྀ", "ཱྀ", "ྂ", "ྃ", "྄", "྆",
     "྇", "ྍ", "ྎ", "ྏ", "ྐ", "ྑ", "ྒ", "ྒྷ", "ྔ", "ྕ", "ྖ", "ྗ", "ྙ", "ྚ",
     "ྛ", "ྜ", "ྜྷ", "ྞ", "ྟ", "ྠ", "ྡ", "ྡྷ", "ྣ", "ྤ", "ྥ", "ྦ", "ྦྷ", "ྨ",
     "ྩ", "ྪ", "ྫ", "ྫྷ", "ྭ", "ྮ", "ྯ", "ྰ", "ྱ", "ྲ", "ླ", "ྴ", "ྵ", "ྶ",
     "ྷ", "ྸ", "ྐྵ", "ྺ", "ྻ", "ྼ", "࿆", "U+102D", "U+102E", "U+102F",
     "U+1030", "U+1032", "U+1033", "U+1034", "U+1035", "U+1036", "U+1037",
     "U+1039", "U+103A", "U+103D", "U+103E", "U+1058", "U+1059", "U+105E",
     "U+105F", "U+1060", "U+1071", "U+1072", "U+1073", "U+1074", "ႂ", "ႅ",
     "ႆ", "ႍ", "ႝ", "ჼ", "U+135D", "U+135E", "U+135F", "U+1712", "U+1713",
     "U+1714", "U+1732", "U+1733", "U+1752", "U+1753", "U+1772", "U+1773",
     "឴", "឵", "ិ", "ី", "ឹ", "ឺ", "ុ", "ូ", "ួ", "ំ", "៉", "៊", "់", "៌",
     "៍", "៎", "៏", "័", "៑", "្", "៓", "ៗ", "៝", "U+180B", "U+180C",
     "U+180D", "U+180E", "U+180F", "U+1843", "ᢅ", "ᢆ", "ᢩ", "U+1920",
     "U+1921", "U+1922", "U+1927", "U+1928", "U+1932", "U+1939", "U+193A",
     "U+193B", "U+1A17", "U+1A18", "U+1A1B", "U+1A56", "U+1A58", "U+1A59",
     "U+1A5A", "U+1A5B", "U+1A5C", "U+1A5D", "U+1A5E", "U+1A60", "U+1A62",
     "U+1A65", "U+1A66", "U+1A67", "U+1A68", "U+1A69", "U+1A6A", "U+1A6B",
     "U+1A6C", "U+1A73", "U+1A74", "U+1A75", "U+1A76", "U+1A77", "U+1A78",
     "U+1A79", "U+1A7A", "U+1A7B", "U+1A7C", "U+1A7F", "ᪧ", "᪰", "᪱", "᪲",
     "᪳", "᪴", "᪵", "᪶", "᪷", "᪸", "᪹", "᪺", "᪻", "᪼", "᪽", "᪾", "ᪿ", "ᫀ",
     "᫁", "᫂", "᫃", "᫄", "᫅", "᫆", "᫇", "᫈", "᫉", "᫊", "᫋", "ᫌ", "ᫍ", "ᫎ",
     "U+1B00", "U+1B01", "U+1B02", "U+1B03", "U+1B34", "U+1B36", "U+1B37",
     "U+1B38", "U+1B39", "U+1B3A", "U+1B3C", "U+1B42", "U+1B6B", "U+1B6C",
     "U+1B6D", "U+1B6E", "U+1B6F", "U+1B70", "U+1B71", "U+1B72", "U+1B73",
     "ᮀ", "ᮁ", "ᮢ", "ᮣ", "ᮤ", "ᮥ", "ᮨ", "ᮩ", "᮫", "ᮬ", "ᮭ", "᯦", "ᯨ", "ᯩ",
     "ᯭ", "ᯯ", "ᯰ", "ᯱ", "U+1C2C", "U+1C2D", "U+1C2E", "U+1C2F", "U+1C30",
     "U+1C31", "U+1C32", "U+1C33", "U+1C36", "U+1C37", "U+1C78", "U+1C79",
     "U+1C7A", "U+1C7B", "U+1C7C", "U+1C7D", "᳐", "᳑", "᳒", "᳔", "᳕", "᳖",
     "᳗", "᳘", "᳙", "᳚", "᳛", "᳜", "᳝", "᳞", "᳟", "᳠", "᳢", "᳣", "᳤", "᳥",
     "᳦", "᳧", "᳨", "᳭", "᳴", "᳸", "᳹", "U+1D2C", "U+1D2D", "U+1D2E",
     "U+1D2F", "U+1D30", "U+1D31", "U+1D32", "U+1D33", "U+1D34", "U+1D35",
     "U+1D36", "U+1D37", "U+1D38", "U+1D39", "U+1D3A", "U+1D3B", "U+1D3C",
     "U+1D3D", "U+1D3E", "U+1D3F", "U+1D40", "U+1D41", "U+1D42", "U+1D43",
     "U+1D44", "U+1D45", "U+1D46", "U+1D47", "U+1D48", "U+1D49", "U+1D4A",
     "U+1D4B", "U+1D4C", "U+1D4D", "U+1D4E", "U+1D4F", "U+1D50", "U+1D51",
     "U+1D52", "U+1D53", "U+1D54", "U+1D55", "U+1D56", "U+1D57", "U+1D58",
     "U+1D59", "U+1D5A", "U+1D5B", "U+1D5C", "U+1D5D", "U+1D5E", "U+1D5F",
     "U+1D60", "U+1D61", "U+1D62", "U+1D63", "U+1D64", "U+1D65", "U+1D66",
     "U+1D67", "U+1D68", "U+1D69", "U+1D6A", "U+1D78", "ᶛ", "ᶜ", "ᶝ", "ᶞ",
     "ᶟ", "ᶠ", "ᶡ", "ᶢ", "ᶣ", "ᶤ", "ᶥ", "ᶦ", "ᶧ", "ᶨ", "ᶩ", "ᶪ", "ᶫ", "ᶬ",
     "ᶭ", "ᶮ", "ᶯ", "ᶰ", "ᶱ", "ᶲ", "ᶳ", "ᶴ", "ᶵ", "ᶶ", "ᶷ", "ᶸ", "ᶹ", "ᶺ",
     "ᶻ", "ᶼ", "ᶽ", "ᶾ", "ᶿ", "᷀", "᷁", "᷂", "᷃", "᷄", "᷅", "᷆", "᷇", "᷈",
     "᷉", "᷊", "᷋", "᷌", "᷍", "᷎", "᷏", "᷐", "᷑", "᷒", "ᷓ", "ᷔ", "ᷕ", "ᷖ",
     "ᷗ", "ᷘ", "ᷙ", "ᷚ", "ᷛ", "ᷜ", "ᷝ", "ᷞ", "ᷟ", "ᷠ", "ᷡ", "ᷢ", "ᷣ", "ᷤ",
     "ᷥ", "ᷦ", "ᷧ", "ᷨ", "ᷩ", "ᷪ", "ᷫ", "ᷬ", "ᷭ", "ᷮ", "ᷯ", "ᷰ", "ᷱ", "ᷲ",
     "ᷳ", "ᷴ", "᷵", "᷶", "᷷", "᷸", "᷹", "᷺", "᷻", "᷼", "᷽", "᷾", "᷿", "᾽",
     "᾿", "῀", "῁", "῍", "῎", "῏", "῝", "῞", "῟", "῭", "΅", "`", "´", "῾",
     "U+200B", "U+200C", "U+200D", "U+200E", "U+200F", "U+2018", "U+2019",
     "U+2024", "U+2027", "U+202A", "U+202B", "U+202C", "U+202D", "U+202E",
     "U+2060", "U+2061", "U+2062", "U+2063", "U+2064", "U+2066", "U+2067",
     "U+2068", "U+2069", "U+206A", "U+206B", "U+206C", "U+206D", "U+206E",
     "U+206F", "U+2071", "U+207F", "ₐ", "ₑ", "ₒ", "ₓ", "ₔ", "ₕ", "ₖ", "ₗ",
     "ₘ", "ₙ", "ₚ", "ₛ", "ₜ", "⃐", "⃑", "⃒", "⃓", "⃔", "⃕", "⃖", "⃗", "⃘",
     "⃙", "⃚", "⃛", "⃜", "⃝", "⃞", "⃟", "⃠", "⃡", "⃢", "⃣", "⃤", "⃥", "⃦",
     "⃧", "⃨", "⃩", "⃪", "⃫", "⃬", "⃭", "⃮", "⃯", "⃰", "U+2C7C", "U+2C7D",
     "⳯", "⳰", "⳱", "U+2D6F", "U+2D7F", "ⷠ", "ⷡ", "ⷢ", "ⷣ", "ⷤ", "ⷥ", "ⷦ",
     "ⷧ", "ⷨ", "ⷩ", "ⷪ", "ⷫ", "ⷬ", "ⷭ", "ⷮ", "ⷯ", "ⷰ", "ⷱ", "ⷲ", "ⷳ", "ⷴ",
     "ⷵ", "ⷶ", "ⷷ", "ⷸ", "ⷹ", "ⷺ", "ⷻ", "ⷼ", "ⷽ", "ⷾ", "ⷿ", "U+2E2F",
     "U+3005", "U+302A", "U+302B", "U+302C", "U+302D", "U+3031", "U+3032",
     "U+3033", "U+3034", "U+3035", "U+303B", "゙", "゚", "゛", "゜", "ゝ", "ゞ",
     "ー", "ヽ", "ヾ", "U+A015", "ꓸ", "ꓹ", "ꓺ", "ꓻ", "ꓼ", "ꓽ", "U+A60C",
     "U+A66F", "U+A670", "U+A671", "U+A672", "U+A674", "U+A675", "U+A676",
     "U+A677", "U+A678", "U+A679", "U+A67A", "U+A67B", "U+A67C", "U+A67D",
     "U+A67F", "ꚜ", "ꚝ", "ꚞ", "ꚟ", "꛰", "꛱", "U+A700", "U+A701", "U+A702",
     "U+A703", "U+A704", "U+A705", "U+A706", "U+A707", "U+A708", "U+A709",
     "U+A70A", "U+A70B", "U+A70C", "U+A70D", "U+A70E", "U+A70F", "U+A710",
     "U+A711", "U+A712", "U+A713", "U+A714", "U+A715", "U+A716", "U+A717",
     "U+A718", "U+A719", "U+A71A", "U+A71B", "U+A71C", "U+A71D", "U+A71E",
     "U+A71F", "U+A720", "U+A721", "U+A770", "ꞈ", "꞉", "꞊", "ꟲ", "ꟳ", "ꟴ",
     "ꟸ", "ꟹ", "U+A802", "U+A806", "U+A80B", "U+A825", "U+A826", "U+A82C",
     "꣄", "ꣅ", "꣠", "꣡", "꣢", "꣣", "꣤", "꣥", "꣦", "꣧", "꣨", "꣩", "꣪", "꣫",
     "꣬", "꣭", "꣮", "꣯", "꣰", "꣱", "ꣿ", "U+A926", "U+A927", "U+A928",
     "U+A929", "U+A92A", "U+A92B", "U+A92C", "U+A92D", "U+A947", "U+A948",
     "U+A949", "U+A94A", "U+A94B", "U+A94C", "U+A94D", "U+A94E", "U+A94F",
     "U+A950", "U+A951", "ꦀ", "ꦁ", "ꦂ", "꦳", "ꦶ", "ꦷ", "ꦸ", "ꦹ", "ꦼ", "ꦽ",
     "ꧏ", "ꧥ", "ꧦ", "U+AA29", "U+AA2A", "U+AA2B", "U+AA2C", "U+AA2D",
     "U+AA2E", "U+AA31", "U+AA32", "U+AA35", "U+AA36", "U+AA43", "U+AA4C",
     "U+AA70", "U+AA7C", "ꪰ", "ꪲ", "ꪳ", "ꪴ", "ꪷ", "ꪸ", "ꪾ", "꪿", "꫁", "ꫝ",
     "ꫬ", "ꫭ", "ꫳ", "ꫴ", "꫶", "U+AB5B", "U+AB5C", "U+AB5D", "U+AB5E",
     "U+AB5F", "U+AB69", "U+AB6A", "U+AB6B", "ꯥ", "ꯨ", "꯭", "U+FB1E", "﮲",
     "﮳", "﮴", "﮵", "﮶", "﮷", "﮸", "﮹", "﮺", "﮻", "﮼", "﮽", "﮾", "﮿", "﯀",
     "﯁", "﯂", "U+FE00", "U+FE01", "U+FE02", "U+FE03", "U+FE04", "U+FE05",
     "U+FE06", "U+FE07", "U+FE08", "U+FE09", "U+FE0A", "U+FE0B", "U+FE0C",
     "U+FE0D", "U+FE0E", "U+FE0F", "U+FE13", "U+FE20", "U+FE21", "U+FE22",
     "U+FE23", "U+FE24", "U+FE25", "U+FE26", "U+FE27", "U+FE28", "U+FE29",
     "U+FE2A", "U+FE2B", "U+FE2C", "U+FE2D", "U+FE2E", "U+FE2F", "U+FE52",
     "U+FE55", "﻿", "U+FF07", "U+FF0E", "U+FF1A", "U+FF3E", "U+FF40",
     "U+FF70", "ﾞ", "ﾟ", "￣", "￹", "￺", "￻", "U+101FD", "U+102E0", "U+10376",
     "U+10377", "U+10378", "U+10379", "U+1037A", "U+10780", "U+10781",
     "U+10782", "U+10783", "U+10784", "U+10785", "U+10787", "U+10788",
     "U+10789", "U+1078A", "U+1078B", "U+1078C", "U+1078D", "U+1078E",
     "U+1078F", "U+10790", "U+10791", "U+10792", "U+10793", "U+10794",
     "U+10795", "U+10796", "U+10797", "U+10798", "U+10799", "U+1079A",
     "U+1079B", "U+1079C", "U+1079D", "U+1079E", "U+1079F", "U+107A0",
     "U+107A1", "U+107A2", "U+107A3", "U+107A4", "U+107A5", "U+107A6",
     "U+107A7", "U+107A8", "U+107A9", "U+107AA", "U+107AB", "U+107AC",
     "U+107AD", "U+107AE", "U+107AF", "U+107B0", "U+107B2", "U+107B3",
     "U+107B4", "U+107B5", "U+107B6", "U+107B7", "U+107B8", "U+107B9",
     "U+107BA", "U+10A01", "U+10A02", "U+10A03", "U+10A05", "U+10A06",
     "U+10A0C", "U+10A0D", "U+10A0E", "U+10A0F", "U+10A38", "U+10A39",
     "U+10A3A", "U+10A3F", "U+10AE5", "U+10AE6", "U+10D24", "U+10D25",
     "U+10D26", "U+10D27", "U+10EAB", "U+10EAC", "U+10F46", "U+10F47",
     "U+10F48", "U+10F49", "U+10F4A", "U+10F4B", "U+10F4C", "U+10F4D",
     "U+10F4E", "U+10F4F", "U+10F50", "U+10F82", "U+10F83", "U+10F84",
     "U+10F85", "U+11001", "U+11038", "U+11039", "U+1103A", "U+1103B",
     "U+1103C", "U+1103D", "U+1103E", "U+1103F", "U+11040", "U+11041",
     "U+11042", "U+11043", "U+11044", "U+11045", "U+11046", "U+11070",
     "U+11073", "U+11074", "U+1107F", "U+11080", "U+11081", "U+110B3",
     "U+110B4", "U+110B5", "U+110B6", "U+110B9", "U+110BA", "U+110BD",
     "U+110C2", "U+110CD", "U+11100", "U+11101", "U+11102", "U+11127",
     "U+11128", "U+11129", "U+1112A", "U+1112B", "U+1112D", "U+1112E",
     "U+1112F", "U+11130", "U+11131", "U+11132", "U+11133", "U+11134",
     "U+11173", "U+11180", "U+11181", "U+111B6", "U+111B7", "U+111B8",
     "U+111B9", "U+111BA", "U+111BB", "U+111BC", "U+111BD", "U+111BE",
     "U+111C9", "U+111CA", "U+111CB", "U+111CC", "U+111CF", "U+1122F",
     "U+11230", "U+11231", "U+11234", "U+11236", "U+11237", "U+1123E",
     "U+112DF", "U+112E3", "U+112E4", "U+112E5", "U+112E6", "U+112E7",
     "U+112E8", "U+112E9", "U+112EA", "U+11300", "U+11301", "U+1133B",
     "U+1133C", "U+11340", "U+11366", "U+11367", "U+11368", "U+11369",
     "U+1136A", "U+1136B", "U+1136C", "U+11370", "U+11371", "U+11372",
     "U+11373", "U+11374", "U+11438", "U+11439", "U+1143A", "U+1143B",
     "U+1143C", "U+1143D", "U+1143E", "U+1143F", "U+11442", "U+11443",
     "U+11444", "U+11446", "U+1145E", "U+114B3", "U+114B4", "U+114B5",
     "U+114B6", "U+114B7", "U+114B8", "U+114BA", "U+114BF", "U+114C0",
     "U+114C2", "U+114C3", "U+115B2", "U+115B3", "U+115B4", "U+115B5",
     "U+115BC", "U+115BD", "U+115BF", "U+115C0", "U+115DC", "U+115DD",
     "U+11633", "U+11634", "U+11635", "U+11636", "U+11637", "U+11638",
     "U+11639", "U+1163A", "U+1163D", "U+1163F", "U+11640", "U+116AB",
     "U+116AD", "U+116B0", "U+116B1", "U+116B2", "U+116B3", "U+116B4",
     "U+116B5", "U+116B7", "U+1171D", "U+1171E", "U+1171F", "U+11722",
     "U+11723", "U+11724", "U+11725", "U+11727", "U+11728", "U+11729",
     "U+1172A", "U+1172B", "U+1182F", "U+11830", "U+11831", "U+11832",
     "U+11833", "U+11834", "U+11835", "U+11836", "U+11837", "U+11839",
     "U+1183A", "U+1193B", "U+1193C", "U+1193E", "U+11943", "U+119D4",
     "U+119D5", "U+119D6", "U+119D7", "U+119DA", "U+119DB", "U+119E0",
     "U+11A01", "U+11A02", "U+11A03", "U+11A04", "U+11A05", "U+11A06",
     "U+11A07", "U+11A08", "U+11A09", "U+11A0A", "U+11A33", "U+11A34",
     "U+11A35", "U+11A36", "U+11A37", "U+11A38", "U+11A3B", "U+11A3C",
     "U+11A3D", "U+11A3E", "U+11A47", "U+11A51", "U+11A52", "U+11A53",
     "U+11A54", "U+11A55", "U+11A56", "U+11A59", "U+11A5A", "U+11A5B",
     "U+11A8A", "U+11A8B", "U+11A8C", "U+11A8D", "U+11A8E", "U+11A8F",
     "U+11A90", "U+11A91", "U+11A92", "U+11A93", "U+11A94", "U+11A95",
     "U+11A96", "U+11A98", "U+11A99", "U+11C30", "U+11C31", "U+11C32",
     "U+11C33", "U+11C34", "U+11C35", "U+11C36", "U+11C38", "U+11C39",
     "U+11C3A", "U+11C3B", "U+11C3C", "U+11C3D", "U+11C3F", "U+11C92",
     "U+11C93", "U+11C94", "U+11C95", "U+11C96", "U+11C97", "U+11C98",
     "U+11C99", "U+11C9A", "U+11C9B", "U+11C9C", "U+11C9D", "U+11C9E",
     "U+11C9F", "U+11CA0", "U+11CA1", "U+11CA2", "U+11CA3", "U+11CA4",
     "U+11CA5", "U+11CA6", "U+11CA7", "U+11CAA", "U+11CAB", "U+11CAC",
     "U+11CAD", "U+11CAE", "U+11CAF", "U+11CB0", "U+11CB2", "U+11CB3",
     "U+11CB5", "U+11CB6", "U+11D31", "U+11D32", "U+11D33", "U+11D34",
     "U+11D35", "U+11D36", "U+11D3A", "U+11D3C", "U+11D3D", "U+11D3F",
     "U+11D40", "U+11D41", "U+11D42", "U+11D43", "U+11D44", "U+11D45",
     "U+11D47", "U+11D90", "U+11D91", "U+11D95", "U+11D97", "U+11EF3",
     "U+11EF4", "U+13430", "U+13431", "U+13432", "U+13433", "U+13434",
     "U+13435", "U+13436", "U+13437", "U+13438", "U+16AF0", "U+16AF1",
     "U+16AF2", "U+16AF3", "U+16AF4", "U+16B30", "U+16B31", "U+16B32",
     "U+16B33", "U+16B34", "U+16B35", "U+16B36", "U+16B40", "U+16B41",
     "U+16B42", "U+16B43", "U+16F4F", "U+16F8F", "U+16F90", "U+16F91",
     "U+16F92", "U+16F93", "U+16F94", "U+16F95", "U+16F96", "U+16F97",
     "U+16F98", "U+16F99", "U+16F9A", "U+16F9B", "U+16F9C", "U+16F9D",
     "U+16F9E", "U+16F9F", "U+16FE0", "U+16FE1", "U+16FE3", "U+16FE4",
     "U+1AFF0", "U+1AFF1", "U+1AFF2", "U+1AFF3", "U+1AFF5", "U+1AFF6",
     "U+1AFF7", "U+1AFF8", "U+1AFF9", "U+1AFFA", "U+1AFFB", "U+1AFFD",
     "U+1AFFE", "U+1BC9D", "U+1BC9E", "U+1BCA0", "U+1BCA1", "U+1BCA2",
     "U+1BCA3", "U+1CF00", "U+1CF01", "U+1CF02", "U+1CF03", "U+1CF04",
     "U+1CF05", "U+1CF06", "U+1CF07", "U+1CF08", "U+1CF09", "U+1CF0A",
     "U+1CF0B", "U+1CF0C", "U+1CF0D", "U+1CF0E", "U+1CF0F", "U+1CF10",
     "U+1CF11", "U+1CF12", "U+1CF13", "U+1CF14", "U+1CF15", "U+1CF16",
     "U+1CF17", "U+1CF18", "U+1CF19", "U+1CF1A", "U+1CF1B", "U+1CF1C",
     "U+1CF1D", "U+1CF1E", "U+1CF1F", "U+1CF20", "U+1CF21", "U+1CF22",
     "U+1CF23", "U+1CF24", "U+1CF25", "U+1CF26", "U+1CF27", "U+1CF28",
     "U+1CF29", "U+1CF2A", "U+1CF2B", "U+1CF2C", "U+1CF2D", "U+1CF30",
     "U+1CF31", "U+1CF32", "U+1CF33", "U+1CF34", "U+1CF35", "U+1CF36",
     "U+1CF37", "U+1CF38", "U+1CF39", "U+1CF3A", "U+1CF3B", "U+1CF3C",
     "U+1CF3D", "U+1CF3E", "U+1CF3F", "U+1CF40", "U+1CF41", "U+1CF42",
     "U+1CF43", "U+1CF44", "U+1CF45", "U+1CF46", "U+1D167", "U+1D168",
     "U+1D169", "U+1D173", "U+1D174", "U+1D175", "U+1D176", "U+1D177",
     "U+1D178", "U+1D179", "U+1D17A", "U+1D17B", "U+1D17C", "U+1D17D",
     "U+1D17E", "U+1D17F", "U+1D180", "U+1D181", "U+1D182", "U+1D185",
     "U+1D186", "U+1D187", "U+1D188", "U+1D189", "U+1D18A", "U+1D18B",
     "U+1D1AA", "U+1D1AB", "U+1D1AC", "U+1D1AD", "U+1D242", "U+1D243",
     "U+1D244", "U+1DA00", "U+1DA01", "U+1DA02", "U+1DA03", "U+1DA04",
     "U+1DA05", "U+1DA06", "U+1DA07", "U+1DA08", "U+1DA09", "U+1DA0A",
     "U+1DA0B", "U+1DA0C", "U+1DA0D", "U+1DA0E", "U+1DA0F", "U+1DA10",
     "U+1DA11", "U+1DA12", "U+1DA13", "U+1DA14", "U+1DA15", "U+1DA16",
     "U+1DA17", "U+1DA18", "U+1DA19", "U+1DA1A", "U+1DA1B", "U+1DA1C",
     "U+1DA1D", "U+1DA1E", "U+1DA1F", "U+1DA20", "U+1DA21", "U+1DA22",
     "U+1DA23", "U+1DA24", "U+1DA25", "U+1DA26", "U+1DA27", "U+1DA28",
     "U+1DA29", "U+1DA2A", "U+1DA2B", "U+1DA2C", "U+1DA2D", "U+1DA2E",
     "U+1DA2F", "U+1DA30", "U+1DA31", "U+1DA32", "U+1DA33", "U+1DA34",
     "U+1DA35", "U+1DA36", "U+1DA3B", "U+1DA3C", "U+1DA3D", "U+1DA3E",
     "U+1DA3F", "U+1DA40", "U+1DA41", "U+1DA42", "U+1DA43", "U+1DA44",
     "U+1DA45", "U+1DA46", "U+1DA47", "U+1DA48", "U+1DA49", "U+1DA4A",
     "U+1DA4B", "U+1DA4C", "U+1DA4D", "U+1DA4E", "U+1DA4F", "U+1DA50",
     "U+1DA51", "U+1DA52", "U+1DA53", "U+1DA54", "U+1DA55", "U+1DA56",
     "U+1DA57", "U+1DA58", "U+1DA59", "U+1DA5A", "U+1DA5B", "U+1DA5C",
     "U+1DA5D", "U+1DA5E", "U+1DA5F", "U+1DA60", "U+1DA61", "U+1DA62",
     "U+1DA63", "U+1DA64", "U+1DA65", "U+1DA66", "U+1DA67", "U+1DA68",
     "U+1DA69", "U+1DA6A", "U+1DA6B", "U+1DA6C", "U+1DA75", "U+1DA84",
     "U+1DA9B", "U+1DA9C", "U+1DA9D", "U+1DA9E", "U+1DA9F", "U+1DAA1",
     "U+1DAA2", "U+1DAA3", "U+1DAA4", "U+1DAA5", "U+1DAA6", "U+1DAA7",
     "U+1DAA8", "U+1DAA9", "U+1DAAA", "U+1DAAB", "U+1DAAC", "U+1DAAD",
     "U+1DAAE", "U+1DAAF", "U+1E000", "U+1E001", "U+1E002", "U+1E003",
     "U+1E004", "U+1E005", "U+1E006", "U+1E008", "U+1E009", "U+1E00A",
     "U+1E00B", "U+1E00C", "U+1E00D", "U+1E00E", "U+1E00F", "U+1E010",
     "U+1E011", "U+1E012", "U+1E013", "U+1E014", "U+1E015", "U+1E016",
     "U+1E017", "U+1E018", "U+1E01B", "U+1E01C", "U+1E01D", "U+1E01E",
     "U+1E01F", "U+1E020", "U+1E021", "U+1E023", "U+1E024", "U+1E026",
     "U+1E027", "U+1E028", "U+1E029", "U+1E02A", "U+1E130", "U+1E131",
     "U+1E132", "U+1E133", "U+1E134", "U+1E135", "U+1E136", "U+1E137",
     "U+1E138", "U+1E139", "U+1E13A", "U+1E13B", "U+1E13C", "U+1E13D",
     "U+1E2AE", "U+1E2EC", "U+1E2ED", "U+1E2EE", "U+1E2EF", "U+1E8D0",
     "U+1E8D1", "U+1E8D2", "U+1E8D3", "U+1E8D4", "U+1E8D5", "U+1E8D6",
     "U+1E944", "U+1E945", "U+1E946", "U+1E947", "U+1E948", "U+1E949",
     "U+1E94A", "U+1E94B", "U+1F3FB", "U+1F3FC", "U+1F3FD", "U+1F3FE",
     "U+1F3FF", "U+E0001", "U+E0020", "U+E0021", "U+E0022", "U+E0023",
     "U+E0024", "U+E0025", "U+E0026", "U+E0027", "U+E0028", "U+E0029",
     "U+E002A", "U+E002B", "U+E002C", "U+E002D", "U+E002E", "U+E002F",
     "U+E0030", "U+E0031", "U+E0032", "U+E0033", "U+E0034", "U+E0035",
     "U+E0036", "U+E0037", "U+E0038", "U+E0039", "U+E003A", "U+E003B",
     "U+E003C", "U+E003D", "U+E003E", "U+E003F", "U+E0040", "U+E0041",
     "U+E0042", "U+E0043", "U+E0044", "U+E0045", "U+E0046", "U+E0047",
     "U+E0048", "U+E0049", "U+E004A", "U+E004B", "U+E004C", "U+E004D",
     "U+E004E", "U+E004F", "U+E0050", "U+E0051", "U+E0052", "U+E0053",
     "U+E0054", "U+E0055", "U+E0056", "U+E0057", "U+E0058", "U+E0059",
     "U+E005A", "U+E005B", "U+E005C", "U+E005D", "U+E005E", "U+E005F",
     "U+E0060", "U+E0061", "U+E0062", "U+E0063", "U+E0064", "U+E0065",
     "U+E0066", "U+E0067", "U+E0068", "U+E0069", "U+E006A", "U+E006B",
     "U+E006C", "U+E006D", "U+E006E", "U+E006F", "U+E0070", "U+E0071",
     "U+E0072", "U+E0073", "U+E0074", "U+E0075", "U+E0076", "U+E0077",
     "U+E0078", "U+E0079", "U+E007A", "U+E007B", "U+E007C", "U+E007D",
     "U+E007E", "U+E007F", "U+E0100", "U+E0101", "U+E0102", "U+E0103",
     "U+E0104", "U+E0105", "U+E0106", "U+E0107", "U+E0108", "U+E0109",
     "U+E010A", "U+E010B", "U+E010C", "U+E010D", "U+E010E", "U+E010F",
     "U+E0110", "U+E0111", "U+E0112", "U+E0113", "U+E0114", "U+E0115",
     "U+E0116", "U+E0117", "U+E0118", "U+E0119", "U+E011A", "U+E011B",
     "U+E011C", "U+E011D", "U+E011E", "U+E011F", "U+E0120", "U+E0121",
     "U+E0122", "U+E0123", "U+E0124", "U+E0125", "U+E0126", "U+E0127",
     "U+E0128", "U+E0129", "U+E012A", "U+E012B", "U+E012C", "U+E012D",
     "U+E012E", "U+E012F", "U+E0130", "U+E0131", "U+E0132", "U+E0133",
     "U+E0134", "U+E0135", "U+E0136", "U+E0137", "U+E0138", "U+E0139",
     "U+E013A", "U+E013B", "U+E013C", "U+E013D", "U+E013E", "U+E013F",
     "U+E0140", "U+E0141", "U+E0142", "U+E0143", "U+E0144", "U+E0145",
     "U+E0146", "U+E0147", "U+E0148", "U+E0149", "U+E014A", "U+E014B",
     "U+E014C", "U+E014D", "U+E014E", "U+E014F", "U+E0150", "U+E0151",
     "U+E0152", "U+E0153", "U+E0154", "U+E0155", "U+E0156", "U+E0157",
     "U+E0158", "U+E0159", "U+E015A", "U+E015B", "U+E015C", "U+E015D",
     "U+E015E", "U+E015F", "U+E0160", "U+E0161", "U+E0162", "U+E0163",
     "U+E0164", "U+E0165", "U+E0166", "U+E0167", "U+E0168", "U+E0169",
     "U+E016A", "U+E016B", "U+E016C", "U+E016D", "U+E016E", "U+E016F",
     "U+E0170", "U+E0171", "U+E0172", "U+E0173", "U+E0174", "U+E0175",
     "U+E0176", "U+E0177", "U+E0178", "U+E0179", "U+E017A", "U+E017B",
     "U+E017C", "U+E017D", "U+E017E", "U+E017F", "U+E0180", "U+E0181",
     "U+E0182", "U+E0183", "U+E0184", "U+E0185", "U+E0186", "U+E0187",
     "U+E0188", "U+E0189", "U+E018A", "U+E018B", "U+E018C", "U+E018D",
     "U+E018E", "U+E018F", "U+E0190", "U+E0191", "U+E0192", "U+E0193",
     "U+E0194", "U+E0195", "U+E0196", "U+E0197", "U+E0198", "U+E0199",
     "U+E019A", "U+E019B", "U+E019C", "U+E019D", "U+E019E", "U+E019F",
     "U+E01A0", "U+E01A1", "U+E01A2", "U+E01A3", "U+E01A4", "U+E01A5",
     "U+E01A6", "U+E01A7", "U+E01A8", "U+E01A9", "U+E01AA", "U+E01AB",
     "U+E01AC", "U+E01AD", "U+E01AE", "U+E01AF", "U+E01B0", "U+E01B1",
     "U+E01B2", "U+E01B3", "U+E01B4", "U+E01B5", "U+E01B6", "U+E01B7",
     "U+E01B8", "U+E01B9", "U+E01BA", "U+E01BB", "U+E01BC", "U+E01BD",
     "U+E01BE", "U+E01BF", "U+E01C0", "U+E01C1", "U+E01C2", "U+E01C3",
     "U+E01C4", "U+E01C5", "U+E01C6", "U+E01C7", "U+E01C8", "U+E01C9",
     "U+E01CA", "U+E01CB", "U+E01CC", "U+E01CD", "U+E01CE", "U+E01CF",
     "U+E01D0", "U+E01D1", "U+E01D2", "U+E01D3", "U+E01D4", "U+E01D5",
     "U+E01D6", "U+E01D7", "U+E01D8", "U+E01D9", "U+E01DA", "U+E01DB",
     "U+E01DC", "U+E01DD", "U+E01DE", "U+E01DF", "U+E01E0", "U+E01E1",
     "U+E01E2", "U+E01E3", "U+E01E4", "U+E01E5", "U+E01E6", "U+E01E7",
     "U+E01E8", "U+E01E9", "U+E01EA", "U+E01EB", "U+E01EC", "U+E01ED",
     "U+E01EE", "U+E01EF"}

\* the nearest character at or before position i that is not case-ignorable
\* is a cased one
RECURSIVE cased_before(_, _)
cased_before(str, i) ==
    IF i < 1 THEN FALSE
    ELSE IF str[i] \in CaseIgnorable THEN cased_before(str, i - 1)
    ELSE str[i] \in Cased

\* the nearest character at or after position i that is not case-ignorable
\* is a cased one
RECURSIVE cased_after(_, _)
cased_after(str, i) ==
    IF i > Len(str) THEN FALSE
    ELSE IF str[i] \in CaseIgnorable THEN cased_after(str, i + 1)
    ELSE str[i] \in Cased

\* the capital sigma at position i ends a word: its lowercase is the final
\* sigma
final_sigma(str, i) == cased_before(str, i - 1) /\ ~cased_after(str, i + 1)

RECURSIVE lower_from(_, _)
lower_from(str, i) ==
    IF i > Len(str) THEN <<>>
    ELSE (IF str[i] = "Σ" /\ final_sigma(str, i) THEN <<"ς">>
          ELSE lower_char(str[i]))
         \o lower_from(str, i + 1)

\* str.lower()
lower(str) == lower_from(str, 1)

\* the characters c with c.isspace()
Whitespace ==
    {"\t", "\n", "", "\f", "\r", "", "", "", "", " ", "", " ", " ",
     "U+2000", "U+2001", "U+2002", "U+2003", "U+2004", "U+2005", "U+2006",
     "U+2007", "U+2008", "U+2009", "U+200A", "U+2028", "U+2029", "U+202F",
     "U+205F", "U+3000"}

\* str.lstrip(): leading whitespace removed
RECURSIVE lstrip(_)
lstrip(str) ==
    IF str # <<>> /\ Head(str) \in Whitespace THEN lstrip(Tail(str)) ELSE str

\* str.rstrip(): trailing whitespace removed
RECURSIVE rstrip(_)
rstrip(str) ==
    IF str # <<>> /\ str[Len(str)] \in Whitespace
    THEN rstrip(SubSeq(str, 1, Len(str) - 1))
    ELSE str

\* str.strip(): leading and trailing whitespace removed
strip(str) == rstrip(lstrip(str))

startswith(str, prefix) ==
    Len(prefix) <= Len(str) /\ SubSeq(str, 1, Len(prefix)) = prefix

\* LTTextContainer.get_text(): the texts of its lines, joined
RECURSIVE join_lines(_, _)
join_lines(lines, k) ==
    IF k > Len(lines) THEN <<>> ELSE lines[k] \o join_lines(lines, k + 1)

get_text(text_element) == join_lines(text_element.lines, 1)

----------------------------------------------------------------------------
(* captions.py: find_caption_by_text *)

\* mutant: the keyword may occur anywhere in the text
regex_search_anywhere(words, str) ==
    \E k \in DOMAIN words : \E i \in 0..Len(str) :
        startswith(SubSeq(str, i + 1, Len(str)), words[k])

\* re.search('^w1|^w2|...', str) for words without regular-expression
\* operators: some word is a prefix of str
regex_search(words, str) ==
    \E k \in DOMAIN words : startswith(str, words[k])

\* "match" (text_element is returned), "False", or the exception raised;
\* every element of page["texts"] is an LTTextContainer and every keyword
\* of the model is a str
find_caption_by_text(text_element, keywords) ==
    IF Len(keywords) = 0 THEN "ValueError"
    ELSE IF regex_search([k \in DOMAIN keywords |-> lower(keywords[k])],
                         lower(get_text(text_element)))
         THEN "match"
         ELSE "False"

----------------------------------------------------------------------------
(* metadata.py: Visual *)

\* Visual.caption is None or a list; None is the empty sequence here, the
\* code never stores an empty list
None == <<>>

\* Visual(document_page, document, bbox, bbox_units)
Visual(box, units) ==
    [bbox |-> box, bbox_units |-> units, caption |-> None, location |-> None]

\* FilePath(root_path, file_path); Visual.location is None or a FilePath
FilePath(root_path, file_path) == <<root_path, file_path>>

\* FilePath.update_root_path: the FilePath after the call
update_root_path(self, root_path) == FilePath(root_path, self[2])

\* mutant: a third caption takes the place of the second
set_caption_keeplast(self, caption) ==
    IF self.caption = None THEN [self EXCEPT !.caption = <<caption>>]
    ELSE IF Len(self.caption) < 2
         THEN [self EXCEPT !.caption = Append(self.caption, caption)]
         ELSE [self EXCEPT !.caption = <<self.caption[1], caption>>]

\* Visual.set_caption raises Warning when the list already holds two captions
set_caption_raises(self) ==
    self.caption # None /\ Len(self.caption) >= 2

\* Visual.set_caption: the Visual after the call (unchanged when it raises)
set_caption(self, caption) ==
    IF self.caption = None THEN [self EXCEPT !.caption = <<caption>>]
    ELSE IF Len(self.caption) < 2
         THEN [self EXCEPT !.caption = Append(self.caption, caption)]
         ELSE self

\* Visual.set_location raises ValueError when the location is already set and
\* update is false; a FilePath is always true as a condition
set_location_raises(self, update) == self.location # None /\ ~update

\* mutant: a location that is already set is replaced
set_location_overwrite(self, location, update) ==
    [self EXCEPT !.location = location]

\* Visual.set_location: the Visual after the call (unchanged when it raises);
\* with update only the root path of the stored location is replaced
set_location(self, location, update) ==
    IF self.location # None /\ ~update THEN self
    ELSE IF self.location # None /\ update
         THEN [self EXCEPT
                !.location = update_root_path(self.location, location[1])]
         ELSE [self EXCEPT !.location = location]

\* Metadata(): visuals is None, the empty sequence here, and total_visuals 0
Metadata == [visuals |-> None, total_visuals |-> 0]

\* an argument of add_visual: a Visual, or an object of another type
Argument(type, value) == [type |-> type, value |-> value]

add_visual_raises(a_visual) == a_visual.type # "Visual"

\* mutant: the total is not updated
add_visual_nototal(self, a_visual) ==
    IF a_visual.type # "Visual" THEN self
    ELSE [self EXCEPT !.visuals = Append(self.visuals, a_visual.value)]

\* Metadata.add_visual: the Metadata after the call (unchanged when it raises)
add_visual(self, a_visual) ==
    IF a_visual.type # "Visual" THEN self
    ELSE [visuals |-> Append(self.visuals, a_visual.value),
          total_visuals |-> self.total_visuals + 1]

----------------------------------------------------------------------------
(* pipelines.py: extract_visuals_by_layout, the loop over the images of a  *)
(* page (lines 249-360)                                                     *)

\* a text element of the page: a pdfminer LTTextContainer with its lines
LTTextContainer(coords, lines) ==
    [kind |-> "LT", coords |-> coords, unit |-> "pt", dpi |-> 0,
     lines |-> lines]

\* lines 264-273: the text elements matching the image by distance, in page
\* order, and the exception of find_caption_by_distance that ended the loop
RECURSIVE distance_loop(_, _, _, _, _)
RECURSIVE distance_step(_, _, _, _, _, _)
distance_loop(img, texts, k, settings, matches) ==
    IF k > Len(texts) THEN [raised |-> "none", matches |-> matches]
    ELSE distance_step(img, texts, k, settings, matches,
            find_caption_by_distance(img, texts[k],
                settings.offset, settings.direction))

\* lines 272-273, the iteration for texts[k] with match the result of
\* find_caption_by_distance
distance_step(img, texts, k, settings, matches, match) ==
    IF match \notin {"match", "False"}
    THEN [raised |-> match, matches |-> matches]
    ELSE distance_loop(img, texts, k + 1, settings,
            IF match = "match" THEN Append(matches, texts[k])
            ELSE matches)

\* lines 279-281 and 291-293: the stripped lines of a text element, joined
RECURSIVE caption_loop(_, _)
caption_loop(lines, k) ==
    IF k > Len(lines) THEN <<>>
    ELSE strip(lines[k]) \o caption_loop(lines, k + 1)

caption_text(text_element) == caption_loop(text_element.lines, 1)

\* lines 284-289: text_match is assigned in every iteration and read after
\* the loop; an exception of find_caption_by_text ends the loop
RECURSIVE text_match_loop(_, _, _, _)
text_match_loop(matches, k, keywords, text_match) ==
    IF k > Len(matches) \/ text_match \notin {"match", "False"}
    THEN text_match
    ELSE text_match_loop(matches, k + 1, keywords,
                         find_caption_by_text(matches[k], keywords))

\* lines 283-289: with several matches find_caption_by_text is called, and
\* its exception is not caught
assign_caption_raises(matches, keywords) ==
    /\ Len(matches) >= 2
    /\ text_match_loop(matches, 1, keywords, "False") \notin {"match", "False"}

\* mutant: with several matches the first is the caption without a keyword
assign_caption_firstmatch(v, matches, keywords) ==
    IF Len(matches) = 0 THEN v
    ELSE set_caption(v, caption_text(matches[1]))

\* mutant: a single match is the caption only if it starts with a keyword
assign_caption_keywordonly(v, matches, keywords) ==
    IF Len(matches) = 0 THEN v
    ELSE IF text_match_loop(matches, 1, keywords, "False") = "match"
         THEN set_caption(v, caption_text(matches[1]))
         ELSE v

\* lines 276-304: the Visual after the caption search (unchanged when
\* find_caption_by_text raises)
assign_caption(v, matches, keywords) ==
    IF Len(matches) = 0 THEN v
    ELSE IF Len(matches) = 1 THEN set_caption(v, caption_text(matches[1]))
    ELSE IF text_match_loop(matches, 1, keywords, "False") = "match"
         THEN set_caption(v, caption_text(matches[1]))
         ELSE v

----------------------------------------------------------------------------
(* Specification SpecLayout: the layout analysis of one page *)

TextFigure == <<<<"F", "i", "g", "u", "r", "e", " ", "3", "\n">>>>
TextSitePlan == <<<<"S", "i", "t", "e", " ", "p", "l", "a", "n", "\r", "\n">>>>
TextSeeFigure == <<<<"s", "e", "e", " ", "f", "i", "g", "u", "r", "e", "\n">>>>
TextCaptionTwoLines == <<<<" ", "c", "a", "p", "t", "i", "o", "n", "\n">>, <<"t", "w", "o", "\n">>>>

TextContents ==
    {TextFigure, TextSitePlan, TextSeeFigure, TextCaptionTwoLines}

\* the image box of the page and text boxes below it, within and beyond the
\* offset, and inside it
LayoutImageBoxes == {<<20, 20, 50, 50>>}

LayoutTextBoxes ==
    {<<20, 10, 50, 18>>, <<25, 0, 40, 9>>, <<20, 0, 50, 5>>,
     <<25, 30, 45, 40>>}

LayoutTexts ==
    {LTTextContainer(b, c) : b \in LayoutTextBoxes, c \in TextContents}

Pages ==
    [images : UNION {[1..n -> LayoutImageBoxes] : n \in 0..MaxImages},
     texts : UNION {[1..n -> LayoutTexts] : n \in 0..MaxTexts}]

\* examples/settings.py: offset [4, "mm"], direction "down" and the default
\* keywords; also the direction "all", a direction that is rejected and an
\* empty list of keywords
default_keywords == <<<<"f", "i", "g", "u", "r", "e">>, <<"c", "a", "p", "t", "i", "o", "n">>, <<"f", "i", "g", "u", "u", "r">>>>

LayoutSettings ==
    [offset : {Offset(4, "mm")},
     direction : {"down", "all", "down-right"},
     keywords : {default_keywords, <<>>}]

InitLayout ==
    /\ lpc = "page"
    /\ page \in Pages
    /\ layout_settings \in LayoutSettings
    /\ img_i = 0
    /\ bbox_matches = <<>>
    /\ visual = <<>>
    /\ visuals = <<>>
    /\ no_image_pages = <<>>
    /\ FilterIdle
    /\ DistanceIdle
    /\ TextIdle
    /\ SizeIdle
    /\ MoreIdle

\* lines 253-257: a page without images is collected for the OCR analysis
EnterPage ==
    /\ lpc = "page"
    /\ no_image_pages' = IF page.images = <<>>
                         THEN Append(no_image_pages, page)
                         ELSE no_image_pages
    /\ lpc' = IF page.images = <<>> THEN "done" ELSE "images"
    /\ UNCHANGED <<page, layout_settings, img_i, bbox_matches, visual, visuals,
                   filter_vars, distance_vars, text_vars, size_vars, more_vars>>

\* lines 276-360, after the distance search has returned found: the caption
\* is assigned, then the image is exported, which may fail with one of the
\* exceptions that are caught; only an exported image is added to the metadata
CaptionAndExport(img, found) ==
    /\ found.raised = "none"
    /\ ~assign_caption_raises(found.matches, layout_settings.keywords)
    /\ bbox_matches' = found.matches
    /\ \E exported \in BOOLEAN :
         /\ visual' =
             LET v == assign_caption(Visual(img.coords, "pt"),
                         found.matches, layout_settings.keywords)
             IN  IF exported
                 THEN set_location(v,
                         FilePath("output_dir", "image_file_name"),
                         FALSE)
                 ELSE v
         /\ visuals' = IF exported THEN Append(visuals, visual')
                       ELSE visuals

\* lines 258-360, one iteration of "for img in page['images']"
ProcessImage ==
    /\ lpc = "images"
    /\ img_i < Len(page.images)
    /\ CaptionAndExport(LTElement(page.images[img_i + 1]),
            distance_loop(LTElement(page.images[img_i + 1]), page.texts, 1,
                          layout_settings, <<>>))
    /\ img_i' = img_i + 1
    /\ lpc' = IF img_i + 1 = Len(page.images) THEN "done" ELSE "images"
    /\ UNCHANGED <<page, layout_settings, no_image_pages,
                   filter_vars, distance_vars, text_vars, size_vars, more_vars>>

\* lines 258-273, when the distance search ends with found: the Visual is
\* new, bbox_matches holds the matches appended so far and
\* find_caption_by_distance raises
DistanceRaises(img, found) ==
    /\ found.raised # "none"
    /\ visual' = Visual(img.coords, "pt")
    /\ bbox_matches' = found.matches

\* the exception of find_caption_by_distance is not caught in the loop
ProcessImageRaises ==
    /\ lpc = "images"
    /\ img_i < Len(page.images)
    /\ DistanceRaises(LTElement(page.images[img_i + 1]),
            distance_loop(LTElement(page.images[img_i + 1]), page.texts, 1,
                          layout_settings, <<>>))
    /\ lpc' = "raised"
    /\ UNCHANGED <<page, layout_settings, img_i, visuals, no_image_pages,
                   filter_vars, distance_vars, text_vars, size_vars, more_vars>>

\* lines 258-289, after the distance search has returned found: the Visual
\* is new and find_caption_by_text raises
CaptionRaises(img, found) ==
    /\ found.raised = "none"
    /\ assign_caption_raises(found.matches, layout_settings.keywords)
    /\ bbox_matches' = found.matches
    /\ visual' = Visual(img.coords, "pt")

\* the exception of find_caption_by_text is not caught in the loop either
ProcessImageTextRaises ==
    /\ lpc = "images"
    /\ img_i < Len(page.images)
    /\ CaptionRaises(LTElement(page.images[img_i + 1]),
            distance_loop(LTElement(page.images[img_i + 1]), page.texts, 1,
                          layout_settings, <<>>))
    /\ lpc' = "raised"
    /\ UNCHANGED <<page, layout_settings, img_i, visuals, no_image_pages,
                   filter_vars, distance_vars, text_vars, size_vars, more_vars>>

NextLayout ==
    EnterPage \/ ProcessImage \/ ProcessImageRaises \/ ProcessImageTextRaises

SpecLayout == InitLayout /\ [][NextLayout]_vars

----------------------------------------------------------------------------
(* Claims about extract_visuals_by_layout (specification SpecLayout) *)

\* the positions of bbox_matches whose text starts with a keyword
KeywordMatches ==
    {k \in DOMAIN bbox_matches :
        find_caption_by_text(bbox_matches[k],
                             layout_settings.keywords) = "match"}

FirstKeywordMatch ==
    CHOOSE k \in KeywordMatches : \A l \in KeywordMatches : k <= l

\* C1: with two or more distance matches, the caption of the Visual is the
\* text of the first of them, in the order collected, that matches a
\* keyword, whatever the other matches are.
C1_FirstKeywordMatchIsCaption ==
    (img_i > 0 /\ Len(bbox_matches) >= 2 /\ KeywordMatches # {}) =>
        visual.caption = <<caption_text(bbox_matches[FirstKeywordMatch])>>

----------------------------------------------------------------------------
(* Specification SpecScenario: an Offset is constructed from a distance and *)
(* a unit and, if accepted, handed to find_caption_by_distance; the boxes   *)
(* are those of the distance-match scenario, image box (0,0,100,100)        *)

ScenarioImageBox == <<0, 0, 100, 100>>

ScenarioYs == {-20, -12, -5, 0, 50, 80, 100, 105}

ScenarioTextBoxes ==
    {b \in {0} \X ScenarioYs \X {100} \X ScenarioYs : b[2] < b[4]}

ScenarioImages ==
    {LTElement(ScenarioImageBox), BoundingBox(ScenarioImageBox, "pt", 0)}

ScenarioTexts ==
    UNION {{LTElement(b), BoundingBox(b, "pt", 0)} : b \in ScenarioTextBoxes}

\* the arguments an Offset is constructed from
ScenarioOffsetArgs == [distance : {4, 10}, unit : {"pt", "mm", "px"}]

InitScenario ==
    /\ dpc = "new"
    /\ image_object \in ScenarioImages
    /\ text_object \in ScenarioTexts
    /\ offset \in ScenarioOffsetArgs
    /\ direction \in {"down", "up"}
    /\ dresult = "none"
    /\ FilterIdle
    /\ LayoutIdle
    /\ TextIdle
    /\ SizeIdle
    /\ MoreIdle

\* Offset(distance, unit): the ValueError of __post_init__ ends the scenario
ConstructOffset ==
    /\ dpc = "new"
    /\ IF offset_unit_rejected(offset.unit)
       THEN dresult' = "ValueError" /\ dpc' = "rejected"
       ELSE dresult' = dresult /\ dpc' = "start"
    /\ UNCHANGED <<image_object, text_object, offset, direction, filter_vars,
                   layout_vars, text_vars, size_vars, more_vars>>

NextScenario == ConstructOffset \/ CallFindCaptionByDistance

SpecScenario == InitScenario /\ [][NextScenario]_vars

----------------------------------------------------------------------------
(* Claims checked under SpecScenario *)

ScenarioBelow == <<0, -20, 100, -5>>
ScenarioInside == <<0, 50, 100, 80>>

ScenarioEnded == dpc \in {"done", "rejected"}

\* C11 as stated: with the image box (0,0,100,100) in points, direction
\* down and the offset (10, "pt"), the text box (0,-20,100,-5) is returned
\* as a match and the text box (0,50,100,80) gives False.
C11_ScenarioWithPointOffset ==
    (ScenarioEnded /\ direction = "down" /\ offset = Offset(10, "pt")) =>
        /\ text_object.coords = ScenarioBelow => dresult = "match"
        /\ text_object.coords = ScenarioInside => dresult = "False"

\* C11 amended: an offset with unit "pt" is rejected by Offset with
\* ValueError and no search is made; with the offset (4, "mm"), 11.34 pt,
\* the text box (0,-20,100,-5) is a match and (0,50,100,80) gives False.
C11_ScenarioWithMillimetreOffset ==
    (ScenarioEnded /\ direction = "down") =>
        /\ offset.unit = "pt" => (dresult = "ValueError" /\ dpc = "rejected")
        /\ offset = Offset(4, "mm") =>
            /\ dpc = "done"
            /\ text_object.coords = ScenarioBelow => dresult = "match"
            /\ text_object.coords = ScenarioInside => dresult = "False"

C11_Witness ==
    /\ dpc = "done" /\ direction = "down" /\ offset = Offset(4, "mm")
    /\ text_object.coords = ScenarioBelow
    /\ dresult = "match"

----------------------------------------------------------------------------
(* Further claims about find_caption_by_distance (specification             *)
(* SpecDistance): units and the inversion of directions                     *)

\* the image with the same numbers as coordinates in points
SameNumbersInPoints == BoundingBox(image_object.coords, "pt", 0)

\* C12: up and down are exchanged exactly when the image is a BoundingBox
\* with a DPI unit: for it, down finds what up finds for a points image
\* with the same numbers and offset distance (the band above, in numbers)
\* and up what down finds; left, right and all give what they give for the
\* points image; for any other image, whatever the unit of the text box,
\* down searches the area built for down and up the area built for up.
C12_DirectionInversion ==
    dpc = "done" =>
        /\ IsPixelImage =>
            /\ direction = "down" =>
                (dresult = "match" <=> SharePoint(TextRect, BandUp))
            /\ direction = "up" =>
                (dresult = "match" <=> SharePoint(TextRect, BandDown))
            /\ direction \in {"left", "right", "all"} =>
                dresult = find_caption_by_distance(SameNumbersInPoints,
                                text_object, offset, direction)
        /\ (~IsPixelImage /\ direction \in {"up", "down"}) =>
            (dresult = "match" <=>
                intersects(search_area(direction, ImageRect, OffsetLength),
                           text_bbox(TextRect)))

\* for an image in pixels, down finds a text box with larger y values
C12_Witness ==
    /\ dpc = "done" /\ IsPixelImage /\ direction = "down"
    /\ dresult = "match"
    /\ FltLT(ImageRect[4], TextRect[2])

\* C13: with an offset in pixels and an image that is not a BoundingBox
\* with a DPI unit the call fails with an error and returns no match result.
C13_PixelOffsetNeedsPixelImage ==
    (dpc = "done" /\ offset.unit = "px" /\ ~IsPixelImage) =>
        dresult \notin {"match", "False"}

\* millimetres as pixels at a resolution: mm / 25.4 * dpi
MmToPixels(mm, dpi) == FltDivInt(FltOfInt(mm * dpi * 10), 254)

\* the offset expressed in the unit of the image coordinates
OffsetInImageCoords ==
    IF offset.unit = "mm"
    THEN IF IsPixelImage THEN MmToPixels(offset.distance, image_object.dpi)
         ELSE convert_mm_to_point(offset.distance)
    ELSE FltOfInt(offset.distance)

\* the search area of the direction, built that far out from the image
ReachedArea ==
    search_area(inverted_direction(image_object, direction), ImageRect,
                OffsetInImageCoords)

\* C14: the search region extends from the image by the offset expressed in
\* the unit of the image coordinates: a millimetre offset becomes points for
\* coordinates in points and pixels at the image's DPI (mm / 25.4 * dpi) for
\* the raw pixel coordinates of a DPI-unit BoundingBox.  A text box is
\* matched iff it meets the area built with that distance.
C14_OffsetInImageUnit ==
    (/\ dpc = "done" /\ offset.unit = "mm"
     /\ direction \in {"left", "right", "up", "down", "all", "None"}) =>
        (dresult = "match" <=> intersects(ReachedArea, text_bbox(TextRect)))

----------------------------------------------------------------------------
(* Specification SpecText: find_caption_by_text is called with a text      *)
(* element and a list of keywords                                           *)

MaxTextLen == 3
MaxKeywords == 2

TextAlphabet == {"F", "i", "g", " ", "Σ"}

TextStrings == UNION {[1..n -> TextAlphabet] : n \in 0..MaxTextLen}

\* a text element holds its text in one line or split over two lines
TextLines ==
    {<<str>> : str \in TextStrings} \cup
    {<<SubSeq(str, 1, 1), SubSeq(str, 2, Len(str))>> :
        str \in {t \in TextStrings : Len(t) >= 2}}

TextElements == {LTTextContainer(<<0, 0, 1, 1>>, l) : l \in TextLines}

\* plain words, in lower and in mixed case
KeywordWords == {<<"f", "i">>, <<"F", "i", "g">>, <<"g">>, <<"g", "Σ">>}

KeywordLists == UNION {[1..n -> KeywordWords] : n \in 0..MaxKeywords}

InitText ==
    /\ tpc = "start"
    /\ t_element \in TextElements
    /\ t_keywords \in KeywordLists
    /\ tresult = "none"
    /\ FilterIdle
    /\ DistanceIdle
    /\ LayoutIdle
    /\ SizeIdle
    /\ MoreIdle

CallFindCaptionByText ==
    /\ tpc = "start"
    /\ tresult' = find_caption_by_text(t_element, t_keywords)
    /\ tpc' = "done"
    /\ UNCHANGED <<t_element, t_keywords, filter_vars, distance_vars,
                   layout_vars, size_vars, more_vars>>

NextText == CallFindCaptionByText

SpecText == InitText /\ [][NextText]_vars

----------------------------------------------------------------------------
(* Claims about find_caption_by_text (specification SpecText) *)

\* word stands in str from position i on
StandsAt(word, str, i) ==
    /\ i + Len(word) - 1 <= Len(str)
    /\ \A j \in 1..Len(word) : str[i + j - 1] = word[j]

BeginsWithKeyword ==
    \E k \in DOMAIN t_keywords :
        StandsAt(lower(t_keywords[k]), lower(get_text(t_element)), 1)

\* C15: for a non-empty list of plain words, the text element is returned
\* if and only if its text, lower-cased, begins with one of the lower-cased
\* keywords, and False is returned otherwise: a keyword that only occurs
\* later in the text does not match.
C15_MatchIffTextBeginsWithKeyword ==
    (tpc = "done" /\ Len(t_keywords) > 0) =>
        /\ tresult \in {"match", "False"}
        /\ tresult = "match" <=> BeginsWithKeyword

\* False is returned for a text with a keyword in it, but not at its start
C15_Witness ==
    /\ tpc = "done"
    /\ tresult = "False"
    /\ \E k \in DOMAIN t_keywords :
        \E i \in 2..Len(get_text(t_element)) :
            StandsAt(lower(t_keywords[k]), lower(get_text(t_element)), i)

----------------------------------------------------------------------------
(* Further claims about extract_visuals_by_layout (specification           *)
(* SpecLayout): the caption when no keyword decides                         *)

\* C16 as stated: when two or more text regions match the image by distance
\* and none of them matches the keyword filter, the caption of the Visual
\* stays unset and no exception is raised.
C16_NoKeywordMatchLeavesCaptionUnset ==
    (Len(bbox_matches) >= 2 /\ KeywordMatches = {}) =>
        /\ visual.caption = None
        /\ lpc # "raised"

\* C16 amended: when two or more text regions match the image by distance
\* and none of them matches a keyword of the list, which is not empty, the
\* caption of the Visual stays unset and no exception ends the loop: the
\* image goes on to be exported. With an empty list of keywords
\* find_caption_by_text raises ValueError for the first of the matches.
C16_NoMatchOfNonEmptyKeywords ==
    /\ (/\ Len(bbox_matches) >= 2 /\ KeywordMatches = {}
        /\ Len(layout_settings.keywords) > 0) =>
            /\ visual.caption = None
            /\ lpc # "raised"
    /\ (/\ Len(bbox_matches) >= 2
        /\ Len(layout_settings.keywords) = 0) =>
            lpc = "raised"

\* such an image was exported and its Visual stored without a caption
C16_Witness ==
    /\ img_i > 0 /\ Len(bbox_matches) >= 2 /\ KeywordMatches = {}
    /\ lpc = "done"
    /\ visuals # <<>>
    /\ visuals[Len(visuals)] = visual
    /\ visual.caption = None

\* C17: when no text region of the page matches the image by distance the
\* caption stays unset, and when exactly one matches, the text of that
\* region is the caption whether or not it starts with a keyword.
C17_NoneOrSingleDistanceMatch ==
    img_i > 0 =>
        /\ Len(bbox_matches) = 0 => visual.caption = None
        /\ Len(bbox_matches) = 1 =>
            visual.caption = <<caption_text(bbox_matches[1])>>

\* the single match does not start with a keyword and is the caption
C17_Witness ==
    /\ img_i > 0 /\ Len(bbox_matches) = 1 /\ KeywordMatches = {}
    /\ visual.caption = <<caption_text(bbox_matches[1])>>
    /\ visual.caption[1] # <<>>

----------------------------------------------------------------------------
(* ocr.py: filter_bbox_by_size *)

\* the aspect_ratio argument: a tuple or a list of a ratio and an operator,
\* or None. The ratio is None or a fraction <<numerator, denominator>> with
\* a positive denominator; the operator None is the string "None"
AspectRatio(type, ratio, operator) ==
    [type |-> type, ratio |-> ratio, operator |-> operator]

\* line 295: the default of the parameter is the list [None, None]
default_aspect_ratio == AspectRatio("list", None, "None")

\* aspect_ratio=None passed by the caller
aspect_ratio_None == AspectRatio("None", None, "None")

\* lines 350 and 353: width/height < ratio and width/height > ratio for a
\* height that is not zero. Both sides are multiplied by the denominator of
\* the ratio and by the height, which turns the comparison round when the
\* height is negative
quotient_less(width, height, ratio) ==
    IF height > 0 THEN width * ratio[2] < ratio[1] * height
    ELSE width * ratio[2] > ratio[1] * height

quotient_greater(width, height, ratio) ==
    IF height > 0 THEN width * ratio[2] > ratio[1] * height
    ELSE width * ratio[2] < ratio[1] * height

\* mutant: the minimum height is not applied
size_step_noheight(box, min_width, min_height, aspect_ratio) ==
    LET width == box[3] - box[1]
        height == box[4] - box[2]
    IN  IF min_width # None /\ width < min_width[1] THEN "skip"
        ELSE IF aspect_ratio.type = "None" THEN "TypeError"
        ELSE IF aspect_ratio.ratio = None THEN "keep"
        ELSE IF aspect_ratio.operator \notin {"<", ">"} THEN "keep"
        ELSE IF height = 0 THEN "ZeroDivisionError"
        ELSE IF aspect_ratio.operator = "<"
             THEN IF quotient_less(width, height, aspect_ratio.ratio)
                  THEN "skip" ELSE "keep"
             ELSE IF quotient_greater(width, height, aspect_ratio.ratio)
                  THEN "skip" ELSE "keep"

\* lines 341-356, the body of the loop for one box: the box is kept or
\* skipped, or the exception raised by aspect_ratio[0] on None or by the
\* division by a height of zero
size_step(box, min_width, min_height, aspect_ratio) ==
    LET width == box[3] - box[1]
        height == box[4] - box[2]
    IN  IF min_width # None /\ width < min_width[1] THEN "skip"
        ELSE IF min_height # None /\ height < min_height[1] THEN "skip"
        ELSE IF aspect_ratio.type = "None" THEN "TypeError"
        ELSE IF aspect_ratio.ratio = None THEN "keep"
        ELSE IF aspect_ratio.operator \notin {"<", ">"} THEN "keep"
        ELSE IF height = 0 THEN "ZeroDivisionError"
        ELSE IF aspect_ratio.operator = "<"
             THEN IF quotient_less(width, height, aspect_ratio.ratio)
                  THEN "skip" ELSE "keep"
             ELSE IF quotient_greater(width, height, aspect_ratio.ratio)
                  THEN "skip" ELSE "keep"

\* lines 339-358: the loop over the keys of the mapping
RECURSIVE size_loop(_, _, _, _, _, _)
size_loop(m, k, min_width, min_height, aspect_ratio, filtered_bboxes) ==
    IF k > Len(m) THEN [raised |-> "none", value |-> filtered_bboxes]
    ELSE LET step == size_step(m[k].box, min_width, min_height, aspect_ratio)
         IN  IF step \notin {"keep", "skip"}
             THEN [raised |-> step, value |-> <<>>]
             ELSE size_loop(m, k + 1, min_width, min_height, aspect_ratio,
                    IF step = "keep"
                    THEN SetNew(filtered_bboxes, m[k].id, m[k].box)
                    ELSE filtered_bboxes)

\* the mapping returned, or the exception raised
filter_bbox_by_size(m, min_width, min_height, aspect_ratio) ==
    IF min_width = None /\ min_height = None /\ aspect_ratio.type = "None"
    THEN [raised |-> "ValueError", value |-> <<>>]
    ELSE IF aspect_ratio.type = "tuple"
            /\ aspect_ratio.operator \notin {"<", ">"}
    THEN [raised |-> "ValueError", value |-> <<>>]
    ELSE IF Len(m) = 0 THEN [raised |-> "none", value |-> m]
    ELSE size_loop(m, 1, min_width, min_height, aspect_ratio, <<>>)

----------------------------------------------------------------------------
(* Specification SpecSize: filter_bbox_by_size is called with a mapping and *)
(* with its optional arguments given or left out                            *)

MaxSide == 2
MaxSizeBoxes == 2

\* boxes whose corners are the wrong way round: a negative height, with a
\* positive and with a negative width
InvertedBoxes == {<<1, 2, 2, 1>>, <<5, 5, 1, 1>>}

\* boxes (x1, y1, x2, y2) of every width and height up to MaxSide, a width
\* or a height of zero included, and the inverted boxes
SizeBoxes ==
    {<<1, 2, 1 + w, 2 + h>> : w \in 0..MaxSide, h \in 0..MaxSide}
        \cup InvertedBoxes

SizeMappings ==
    {MappingOf(s) : s \in UNION {[1..n -> SizeBoxes] : n \in 0..MaxSizeBoxes}}

\* min_width and min_height: None or a number of pixels
MinSizes == {None, <<1>>, <<2>>}

AspectRatioValues == {<<1, 1>>, <<2, 1>>, <<1, 2>>}

AspectRatios ==
    {default_aspect_ratio, aspect_ratio_None} \cup
    {AspectRatio(t, r, o) : t \in {"tuple", "list"}, r \in AspectRatioValues,
                            o \in {"<", ">", "="}}

InitSize ==
    /\ spc = "start"
    /\ size_bboxes \in SizeMappings
    /\ s_min_width \in MinSizes
    /\ s_min_height \in MinSizes
    /\ s_aspect_ratio \in AspectRatios
    /\ sresult = [raised |-> "none", value |-> <<>>]
    /\ FilterIdle
    /\ DistanceIdle
    /\ LayoutIdle
    /\ TextIdle
    /\ MoreIdle

CallFilterBySize ==
    /\ spc = "start"
    /\ sresult' = filter_bbox_by_size(size_bboxes, s_min_width, s_min_height,
                                      s_aspect_ratio)
    /\ spc' = "done"
    /\ UNCHANGED <<size_bboxes, s_min_width, s_min_height, s_aspect_ratio,
                   filter_vars, distance_vars, layout_vars, text_vars,
                   more_vars>>

NextSize == CallFilterBySize

SpecSize == InitSize /\ [][NextSize]_vars

----------------------------------------------------------------------------
(* Claims about filter_bbox_by_size (specification SpecSize) *)

\* C18: a call with no filtering criterion, min_width, min_height and
\* aspect_ratio all left out, fails with ValueError and returns no mapping.
C18_NoCriterionFails ==
    (/\ spc = "done"
     /\ s_min_width = None
     /\ s_min_height = None
     /\ s_aspect_ratio = default_aspect_ratio) =>
        sresult.raised = "ValueError"

\* C19: a call with an aspect ratio whose operator is neither '<' nor '>'
\* fails with ValueError, whether a tuple or a list carries the ratio and
\* the operator and whether or not the mapping is empty.
C19_BadOperatorFails ==
    (/\ spc = "done"
     /\ s_aspect_ratio.type \in {"tuple", "list"}
     /\ s_aspect_ratio.ratio # None
     /\ s_aspect_ratio.operator \notin {"<", ">"}) =>
        sresult.raised = "ValueError"

WidthOf(box) == box[3] - box[1]

HeightOf(box) == box[4] - box[2]

PositiveHeights == \A i \in DOMAIN size_bboxes : HeightOf(size_bboxes[i].box) > 0

Returned(e) == \E j \in DOMAIN sresult.value : sresult.value[j] = e

ValidAspectRatio ==
    s_aspect_ratio.ratio # None /\ s_aspect_ratio.operator \in {"<", ">"}

\* C20: for a mapping of regions with positive heights, the mapping returned
\* with min_width W holds no region narrower than W and with min_height H
\* none lower than H; with both and no aspect ratio it holds every region of
\* the input that is at least W wide and H high; with the aspect ratio
\* (r, '>') it holds no region with width/height > r and with (r, '<') none
\* with width/height < r. None of these calls raises.
C20_SizeFilterOutput ==
    (spc = "done" /\ PositiveHeights) =>
        /\ (s_aspect_ratio = default_aspect_ratio \/ ValidAspectRatio) =>
            sresult.raised = "none"
        /\ sresult.raised = "none" =>
            /\ \A j \in DOMAIN sresult.value :
                /\ \E i \in DOMAIN size_bboxes :
                    size_bboxes[i] = sresult.value[j]
                /\ s_min_width # None =>
                    WidthOf(sresult.value[j].box) >= s_min_width[1]
                /\ s_min_height # None =>
                    HeightOf(sresult.value[j].box) >= s_min_height[1]
                /\ (ValidAspectRatio /\ s_aspect_ratio.operator = ">") =>
                    WidthOf(sresult.value[j].box) * s_aspect_ratio.ratio[2]
                        <= s_aspect_ratio.ratio[1]
                            * HeightOf(sresult.value[j].box)
                /\ (ValidAspectRatio /\ s_aspect_ratio.operator = "<") =>
                    WidthOf(sresult.value[j].box) * s_aspect_ratio.ratio[2]
                        >= s_aspect_ratio.ratio[1]
                            * HeightOf(sresult.value[j].box)
            /\ (/\ s_min_width # None
                /\ s_min_height # None
                /\ s_aspect_ratio = default_aspect_ratio) =>
                \A i \in DOMAIN size_bboxes :
                    (/\ WidthOf(size_bboxes[i].box) >= s_min_width[1]
                     /\ HeightOf(size_bboxes[i].box) >= s_min_height[1]) =>
                        Returned(size_bboxes[i])

\* with W and H given, one region of the input was kept and one, too low,
\* was filtered out
C20_Witness ==
    /\ spc = "done" /\ PositiveHeights
    /\ s_min_width # None /\ s_min_height # None
    /\ s_aspect_ratio = default_aspect_ratio
    /\ sresult.raised = "none"
    /\ Len(sresult.value) = 1
    /\ \E i \in DOMAIN size_bboxes :
        /\ HeightOf(size_bboxes[i].box) < s_min_height[1]
        /\ WidthOf(size_bboxes[i].box) >= s_min_width[1]

----------------------------------------------------------------------------
(* utils.py: convert_dpi_to_point with the checks of its dpi argument *)

\* the dpi argument as the caller passes it: an int or a float
DpiArg(type, value) == [type |-> type, value |-> value]

\* lines 72-77: [raised, value]; the division raises for a dpi of zero
convert_dpi_to_point_checked(quantity, dpi) ==
    IF dpi.type # "int" THEN [raised |-> "TypeError", value |-> <<>>]
    ELSE IF dpi.value < 0 THEN [raised |-> "ValueError", value |-> <<>>]
    ELSE IF dpi.value = 0
         THEN [raised |-> "ZeroDivisionError", value |-> <<>>]
         ELSE [raised |-> "none",
               value |-> convert_dpi_to_point(quantity, dpi.value)]

----------------------------------------------------------------------------
(* Specification SpecConvert: convert_dpi_to_point and BoundingBox.bbox    *)
(* are called                                                               *)

MaxQuantity == 3
MaxDpi == 5

\* resolutions of scanned pages
Resolutions == {72, DPI, 250, 300, 400, 600, 1200}

DpiArgs ==
    {DpiArg(t, v) : t \in {"int", "float"},
                    v \in (-MaxDpi..MaxDpi) \cup Resolutions}

\* tests/test_captions.py: the fixtures bbox_ and bbox_dpi
FixtureBox == <<1, 2, 3, 4>>

ConvertBoxes ==
    UNION {{BoundingBox(b, "pt", 0), BoundingBox(b, "mm", 0)} \cup
           {BoundingBox(b, "dpi", r) : r \in Resolutions} :
           b \in GridBoxes \cup {FixtureBox}}

InitConvert ==
    /\ cpc = "start"
    /\ c_quantity \in 0..MaxQuantity
    /\ c_dpi \in DpiArgs
    /\ c_box \in ConvertBoxes
    /\ cresult = [raised |-> "none", value |-> <<>>]
    /\ FirstIdle
    /\ MetaIdle /\ FrameIdle /\ OcrIdle /\ RunIdle /\ HocrIdle

CallConvertDpiToPoint ==
    /\ cpc = "start"
    /\ cresult' = convert_dpi_to_point_checked(c_quantity, c_dpi)
    /\ cpc' = "converted"
    /\ UNCHANGED <<c_quantity, c_dpi, c_box, first_vars, meta_vars,
                   frame_vars, ocr_vars, run_vars, hocr_vars>>

CallBbox ==
    /\ cpc = "start"
    /\ cresult' = [raised |-> "none", value |-> bbox(c_box)]
    /\ cpc' = "bbox"
    /\ UNCHANGED <<c_quantity, c_dpi, c_box, first_vars, meta_vars,
                   frame_vars, ocr_vars, run_vars, hocr_vars>>

NextConvert == CallConvertDpiToPoint \/ CallBbox

SpecConvert == InitConvert /\ [][NextConvert]_vars

----------------------------------------------------------------------------
(* Claims about the unit conversions (specification SpecConvert) *)

\* the float v is the quotient of the natural numbers num and den > 0 up to
\* the rounding of two operations: |v - num/den| <= 2^-51 * num/den
IsNearQuotient(v, num, den) ==
    LET error == FltAbs(ExactSub(ExactMul(v, Flt(FALSE, den, 0)),
                                 Flt(FALSE, num, 0)))
    IN  /\ ~v.neg
        /\ FltLE(ExactMul(error, Flt(FALSE, NatPow2(51), 0)),
                 Flt(FALSE, num, 0))

\* v is quantity * 72 / dpi
IsQuantityInPoints(v, quantity, dpi) ==
    IsNearQuotient(v, NatOfInt(quantity * 72), NatOfInt(dpi))

\* v is quantity * 2.8346456693 = quantity * 28346456693 / 10^10
IsMillimetresInPoints(v, quantity) ==
    IsNearQuotient(v,
        NatMulSmall(NatAdd(NatMul(NatOfInt(283464), NatOfInt(100000)),
                           NatOfInt(56693)), quantity),
        NatMul(NatOfInt(100000), NatOfInt(100000)))

\* the float of a literal with two decimals, n / 100
Hundredths(n) == FltDivInt(FltOfInt(n), 100)

\* C21: convert_dpi_to_point raises TypeError or ValueError for every dpi
\* that is not a positive integer, zero and the negative integers included,
\* and returns quantity / dpi * 72 for every positive integer dpi.
C21_DpiMustBePositiveInteger ==
    cpc = "converted" =>
        IF c_dpi.type = "int" /\ c_dpi.value > 0
        THEN /\ cresult.raised = "none"
             /\ IsQuantityInPoints(cresult.value, c_quantity, c_dpi.value)
        ELSE cresult.raised \in {"TypeError", "ValueError"}

\* C22: bbox() returns the four coordinates in points, in the original
\* order: each coordinate times 72/dpi for a unit that is a DPI, so that
\* (1,2,3,4) at 200 DPI gives (0.36, 0.72, 1.08, 1.44), each coordinate
\* times 2.8346456693 for millimetres, and the coordinates themselves for
\* points.
C22_BboxInPoints ==
    cpc = "bbox" =>
        /\ cresult.raised = "none"
        /\ DOMAIN cresult.value = 1..4
        /\ \A i \in 1..4 :
            /\ c_box.unit = "dpi" =>
                IsQuantityInPoints(cresult.value[i], c_box.coords[i],
                                   c_box.dpi)
            /\ c_box.unit = "mm" =>
                IsMillimetresInPoints(cresult.value[i], c_box.coords[i])
            /\ c_box.unit = "pt" =>
                cresult.value[i] = FltOfInt(c_box.coords[i])
        /\ c_box = BoundingBox(FixtureBox, "dpi", 200) =>
            cresult.value = <<Hundredths(36), Hundredths(72),
                               Hundredths(108), Hundredths(144)>>

\* the fixture bbox_dpi converted
C22_Witness ==
    /\ cpc = "bbox"
    /\ c_box = BoundingBox(FixtureBox, "dpi", 200)
    /\ cresult.value[4] = Hundredths(144)

----------------------------------------------------------------------------
(* Specification SpecMetadata: set_caption and set_location are called on  *)
(* a Visual, add_visual on a Metadata and update_root_path on a FilePath,   *)
(* in any order; m_call is the list of the calls made, each with its        *)
(* arguments and the exception it raised.                                   *)
(*                                                                          *)
(* Python objects are shared.  There is one Visual: add_visual appends the  *)
(* object itself (line 394), so every entry of metadata.visuals is this     *)
(* Visual and shows its fields as they are now.  set_location stores the    *)
(* FilePath object it is handed (line 183): m_paths holds the FilePath      *)
(* objects the caller has made and m_location tells which of them is the    *)
(* location of the Visual.                                                  *)

MaxCalls == 4

Captions == {<<"a">>, <<"b">>, <<"c">>}

Roots == {"root1", "root2"}

Locations == {FilePath(r, f) : r \in Roots, f \in {"f1", "f2"}}

\* the entry of m_call for a call
Call(name, caption, location, update, type, raised) ==
    [name |-> name, caption |-> caption, location |-> location,
     update |-> update, type |-> type, raised |-> raised]

\* metadata.visuals with its entries, all the Visual v, as v is now
SharedVisual(metadata, v) ==
    [metadata EXCEPT !.visuals = [i \in 1..Len(metadata.visuals) |-> v]]

InitMetadata ==
    /\ mpc = 0
    /\ m_visual = Visual(<<0, 0, 1, 1>>, "pt")
    /\ m_metadata = Metadata
    /\ m_paths = <<>>
    /\ m_location = 0
    /\ m_call = <<>>
    /\ FirstIdle
    /\ ConvIdle /\ FrameIdle /\ OcrIdle /\ RunIdle /\ HocrIdle

SetCaption ==
    /\ mpc < MaxCalls
    /\ \E caption \in Captions :
        /\ m_call' = Append(m_call,
                        Call("set_caption", caption, None, FALSE, "str",
                             IF set_caption_raises(m_visual) THEN "Warning"
                             ELSE "none"))
        /\ m_visual' = set_caption(m_visual, caption)
    /\ m_metadata' = SharedVisual(m_metadata, m_visual')
    /\ mpc' = mpc + 1
    /\ UNCHANGED <<m_paths, m_location, first_vars, conv_vars, frame_vars,
                   ocr_vars, run_vars, hocr_vars>>

\* set_location is handed the FilePath object p: one made for the call, or
\* one made before.  The first call stores the object; a call with update
\* changes the object stored.
SetLocation ==
    /\ mpc < MaxCalls
    /\ \E made \in {m_paths} \cup {Append(m_paths, l) : l \in Locations} :
       \E p \in DOMAIN made, update \in BOOLEAN :
        /\ p = Len(made) \/ made = m_paths
        /\ m_call' = Append(m_call,
                        Call("set_location", None, made[p], update,
                             "FilePath",
                             IF set_location_raises(m_visual, update)
                             THEN "ValueError" ELSE "none"))
        /\ m_visual' = set_location(m_visual, made[p], update)
        /\ m_location' = IF m_location = 0 THEN p ELSE m_location
        /\ m_paths' = [made EXCEPT ![m_location'] = m_visual'.location]
    /\ m_metadata' = SharedVisual(m_metadata, m_visual')
    /\ mpc' = mpc + 1
    /\ UNCHANGED <<first_vars, conv_vars, frame_vars, ocr_vars, run_vars,
                   hocr_vars>>

\* add_visual is handed the Visual, or a dict
AddVisual ==
    /\ mpc < MaxCalls
    /\ \E a_visual \in {Argument("Visual", m_visual), Argument("dict", <<>>)} :
        /\ m_call' = Append(m_call,
                        Call("add_visual", None, None, FALSE, a_visual.type,
                             IF add_visual_raises(a_visual) THEN "TypeError"
                             ELSE "none"))
        /\ m_metadata' = add_visual(m_metadata, a_visual)
    /\ mpc' = mpc + 1
    /\ UNCHANGED <<m_visual, m_paths, m_location, first_vars, conv_vars,
                   frame_vars, ocr_vars, run_vars, hocr_vars>>

\* update_root_path is called on the FilePath object p, which may be the
\* location of the Visual
UpdateRootPath ==
    /\ mpc < MaxCalls
    /\ \E p \in DOMAIN m_paths, root_path \in Roots :
        /\ m_call' = Append(m_call,
                        Call("update_root_path", None,
                             update_root_path(m_paths[p], root_path), FALSE,
                             "str", "none"))
        /\ m_paths' = [m_paths EXCEPT
                        ![p] = update_root_path(m_paths[p], root_path)]
        /\ m_visual' = IF p = m_location
                       THEN [m_visual EXCEPT !.location = m_paths'[p]]
                       ELSE m_visual
    /\ m_metadata' = SharedVisual(m_metadata, m_visual')
    /\ mpc' = mpc + 1
    /\ UNCHANGED <<m_location, first_vars, conv_vars, frame_vars, ocr_vars,
                   run_vars, hocr_vars>>

NextMetadata == SetCaption \/ SetLocation \/ AddVisual \/ UpdateRootPath

SpecMetadata == InitMetadata /\ [][NextMetadata]_vars

----------------------------------------------------------------------------
(* Claims about Visual and Metadata (specification SpecMetadata) *)

\* the positions in m_call of the calls of an operation
CallsOf(name) == {i \in DOMAIN m_call : m_call[i].name = name}

\* the k-th smallest element of a set of positions
RECURSIVE Nth(_, _)
Nth(S, k) ==
    LET least == CHOOSE i \in S : \A j \in S : i <= j
    IN  IF k = 1 THEN least ELSE Nth(S \ {least}, k - 1)

\* the captions supplied by the first n set_caption calls, in order
SuppliedCaptions(n) ==
    [k \in 1..n |-> m_call[Nth(CallsOf("set_caption"), k)].caption]

\* C23: after any sequence of set_caption calls the caption list holds at
\* most two entries, the first two captions supplied, in order; every call
\* after the second raises Warning and leaves the list as it was.
C23_AtMostTwoCaptions ==
    LET n == Cardinality(CallsOf("set_caption"))
    IN  /\ m_visual.caption = SuppliedCaptions(IF n < 2 THEN n ELSE 2)
        /\ \A k \in 1..n :
            m_call[Nth(CallsOf("set_caption"), k)].raised =
                IF k > 2 THEN "Warning" ELSE "none"

\* a third caption was supplied and refused
C23_Witness ==
    /\ Cardinality(CallsOf("set_caption")) >= 3
    /\ m_call[Len(m_call)].name = "set_caption"
    /\ m_call[Len(m_call)].raised = "Warning"
    /\ m_call[Len(m_call)].caption \notin
        {m_visual.caption[1], m_visual.caption[2]}

\* the call made by the step is set_location without update
RefusedSetLocation ==
    /\ Len(m_call') = Len(m_call) + 1
    /\ m_call'[Len(m_call')].name = "set_location"
    /\ ~m_call'[Len(m_call')].update

\* C24: once the location of a Visual is set, every further set_location
\* call without update raises ValueError and leaves the location stored,
\* its root path and its file path, as it was.
C24_LocationSetOnce ==
    [][(RefusedSetLocation /\ m_visual.location # None) =>
            /\ m_call'[Len(m_call')].raised = "ValueError"
            /\ m_visual'.location = m_visual.location]_vars

\* a second location, with another root and file, was refused
C24_Witness ==
    /\ Cardinality(CallsOf("set_location")) >= 2
    /\ m_call[Len(m_call)].name = "set_location"
    /\ m_call[Len(m_call)].raised = "ValueError"
    /\ m_call[Len(m_call)].location[1] # m_visual.location[1]
    /\ m_call[Len(m_call)].location[2] # m_visual.location[2]

\* C29: after any sequence of add_visual calls total_visuals is the number
\* of entries of visuals; a call with an argument that is not a Visual
\* raises TypeError and changes neither: the entries are those of the calls
\* that were handed a Visual.
C29_TotalVisualsCountsVisuals ==
    /\ m_metadata.total_visuals = Len(m_metadata.visuals)
    /\ Len(m_metadata.visuals) =
        Cardinality({i \in CallsOf("add_visual") : m_call[i].type = "Visual"})
    /\ \A i \in CallsOf("add_visual") :
        m_call[i].raised =
            IF m_call[i].type = "Visual" THEN "none" ELSE "TypeError"

\* Visuals were added and an argument of another type refused
C29_Witness ==
    /\ m_metadata.total_visuals = 2
    /\ m_call[Len(m_call)].name = "add_visual"
    /\ m_call[Len(m_call)].raised = "TypeError"

----------------------------------------------------------------------------
(* ocr.py: filter_bbox_largest *)

\* lines 381-385
compute_area(box) == (box[3] - box[1]) * (box[4] - box[2])

\* mutant: the largest box is returned under a key of its own
filter_bbox_largest_rekeyed(m) ==
    IF Len(m) = 0 THEN m
    ELSE LET largest ==
                CHOOSE i \in DOMAIN m :
                    /\ \A j \in DOMAIN m :
                        compute_area(m[j].box) <= compute_area(m[i].box)
                    /\ \A j \in 1..(i - 1) :
                        compute_area(m[j].box) < compute_area(m[i].box)
         IN  SetNew(<<>>, 0, m[largest].box)

\* max(bboxes_area, key=bboxes_area.get) is the first key, in the order of
\* the mapping, among those of the largest area
filter_bbox_largest(m) ==
    IF Len(m) = 0 THEN m
    ELSE LET largest ==
                CHOOSE i \in DOMAIN m :
                    /\ \A j \in DOMAIN m :
                        compute_area(m[j].box) <= compute_area(m[i].box)
                    /\ \A j \in 1..(i - 1) :
                        compute_area(m[j].box) < compute_area(m[i].box)
         IN  SetNew(<<>>, m[largest].id, m[largest].box)

----------------------------------------------------------------------------
(* Specification SpecFrame: one of the three region filters is called on a *)
(* mapping; r_given keeps the mapping as it was handed over and r_bboxes   *)
(* is the caller's mapping object, which none of the filters assigns to    *)

FrameInputs ==
    SizeMappings \cup {boxes_inside_boxes, boxes_inside_boxes7, overlaping_boxes}

InitFrame ==
    /\ rpc = "start"
    /\ r_given \in FrameInputs
    /\ r_bboxes = r_given
    /\ r_call = "none"
    /\ r_output = [raised |-> "none", value |-> <<>>]
    /\ FirstIdle
    /\ ConvIdle /\ MetaIdle /\ OcrIdle /\ RunIdle /\ HocrIdle

CallBySize ==
    /\ rpc = "start"
    /\ \E min_width \in MinSizes, min_height \in MinSizes,
          aspect_ratio \in AspectRatios :
        r_output' = filter_bbox_by_size(r_bboxes, min_width, min_height,
                                        aspect_ratio)
    /\ r_call' = "filter_bbox_by_size"
    /\ rpc' = "done"
    /\ UNCHANGED <<r_given, r_bboxes, first_vars, conv_vars, meta_vars,
                   ocr_vars, run_vars, hocr_vars>>

CallLargest ==
    /\ rpc = "start"
    /\ r_output' = [raised |-> "none", value |-> filter_bbox_largest(r_bboxes)]
    /\ r_call' = "filter_bbox_largest"
    /\ rpc' = "done"
    /\ UNCHANGED <<r_given, r_bboxes, first_vars, conv_vars, meta_vars,
                   ocr_vars, run_vars, hocr_vars>>

CallContained ==
    /\ rpc = "start"
    /\ r_output' = [raised |-> "none",
                    value |-> filter_bbox_contained(r_bboxes)]
    /\ r_call' = "filter_bbox_contained"
    /\ rpc' = "done"
    /\ UNCHANGED <<r_given, r_bboxes, first_vars, conv_vars, meta_vars,
                   ocr_vars, run_vars, hocr_vars>>

NextFrame == CallBySize \/ CallLargest \/ CallContained

SpecFrame == InitFrame /\ [][NextFrame]_vars

----------------------------------------------------------------------------
(* Claim about the three filters (specification SpecFrame) *)

\* every entry of m1 is an entry of m2, and no key occurs twice in m1
IsSubMapping(m1, m2) ==
    /\ \A j \in DOMAIN m1 : \E i \in DOMAIN m2 : m2[i] = m1[j]
    /\ \A j, k \in DOMAIN m1 : m1[j].id = m1[k].id => j = k

\* C25: none of filter_bbox_by_size, filter_bbox_largest and
\* filter_bbox_contained modifies the mapping it is given, and every entry
\* of the mapping returned is an entry of the input, with the same key and
\* the same coordinates.
C25_FiltersReturnSubMapping ==
    rpc = "done" =>
        /\ r_bboxes = r_given
        /\ r_output.raised = "none" => IsSubMapping(r_output.value, r_given)

\* the largest of several regions was returned alone; it is not the first
C25_Witness ==
    /\ rpc = "done"
    /\ r_call = "filter_bbox_largest"
    /\ Len(r_given) >= 2
    /\ Len(r_output.value) = 1
    /\ r_output.value[1] # r_given[1]
    /\ r_bboxes = r_given

----------------------------------------------------------------------------
(* pipelines.py: extract_visuals_by_ocr, the processing of one page (lines *)
(* 508-605)                                                                 *)

\* mutant: the containment filter is applied first and the size filter last
ocr_filter_step_containedfirst(stage, m, settings) ==
    IF stage = "contained"
    THEN filter_bbox_by_size(m, settings.width, settings.height,
                             default_aspect_ratio)
    ELSE IF stage = "wide"
    THEN filter_bbox_by_size(m, None, None, AspectRatio("tuple", <<20, 1>>, ">"))
    ELSE IF stage = "tall"
    THEN filter_bbox_by_size(m, None, None, AspectRatio("tuple", <<1, 20>>, "<"))
    ELSE [raised |-> "none", value |-> filter_bbox_contained(m)]

\* lines 514-542: the filter call of each of the four steps
ocr_filter_step(stage, m, settings) ==
    IF stage = "size"
    THEN filter_bbox_by_size(m, settings.width, settings.height,
                             default_aspect_ratio)
    ELSE IF stage = "wide"
    THEN filter_bbox_by_size(m, None, None, AspectRatio("tuple", <<20, 1>>, ">"))
    ELSE IF stage = "tall"
    THEN filter_bbox_by_size(m, None, None, AspectRatio("tuple", <<1, 20>>, "<"))
    ELSE [raised |-> "none", value |-> filter_bbox_contained(m)]

\* the statement that follows each step
next_stage(stage) ==
    IF stage = "size" THEN "wide"
    ELSE IF stage = "wide" THEN "tall"
    ELSE IF stage = "tall" THEN "contained"
    ELSE "regions"

\* lines 561-566: a text region as handed to find_caption_by_distance, with
\* what region_to_string reads in it
OcrText(coords, resolution, text) ==
    [kind |-> "BoundingBox", coords |-> coords, unit |-> "dpi",
     dpi |-> resolution, text |-> text]

\* mutant: an empty text is set as caption like any other
ocr_caption_loop_keepempty(v, matches, k, warnings) ==
    LET RECURSIVE loop(_, _, _)
        loop(w, j, n) ==
            IF j > Len(matches) THEN [visual |-> w, warnings |-> n]
            ELSE loop(set_caption(w, matches[j].text), j + 1,
                      IF set_caption_raises(w) THEN n + 1 ELSE n)
    IN  loop(v, k, warnings)

\* lines 587-598: the captions are set from the matches in order; an empty
\* text is skipped, and the Warning of set_caption is caught and logged
ocr_caption_loop(v, matches, k, warnings) ==
    LET RECURSIVE loop(_, _, _)
        loop(w, j, n) ==
            IF j > Len(matches) THEN [visual |-> w, warnings |-> n]
            ELSE IF matches[j].text = <<>> THEN loop(w, j + 1, n)
            ELSE loop(set_caption(w, matches[j].text), j + 1,
                      IF set_caption_raises(w) THEN n + 1 ELSE n)
    IN  loop(v, k, warnings)

----------------------------------------------------------------------------
(* Specification SpecOcr: the regions of one page pass the four filters    *)
(* and each remaining region becomes a Visual                               *)

MaxOcrBoxes == 2
MaxOcrTexts == 3

\* non-text regions: 21 times wider than high, 21 times higher than wide,
\* 20 times wider than high, a square, a square inside it, and a square
\* inside the first
OcrRegionBoxes ==
    {<<0, 0, 63, 3>>, <<0, 0, 1, 21>>, <<0, 0, 40, 2>>, <<2, 2, 6, 6>>,
     <<3, 3, 5, 5>>, <<1, 1, 3, 3>>}

\* text regions: three within two pixels of the square, at larger y, and
\* one far from every region
OcrTextBoxes ==
    <<<<2, 6, 6, 7>>, <<2, 7, 5, 8>>, <<3, 8, 4, 9>>, <<2, 30, 6, 31>>>>

\* what is read in a text region: nothing, a blank, or a word
OcrTexts == {<<>>, <<" ">>, <<"a">>}

\* the settings: no minimum size or a minimum of two pixels for both sides
OcrSettings ==
    {[width |-> m, height |-> m, resolution |-> 250,
      offset |-> Offset(2, "px"), direction |-> "down"] : m \in {None, <<2>>}}

InitOcr ==
    /\ opc = "size"
    /\ ocr_settings \in OcrSettings
    /\ ocr_given \in {MappingOf(b) : b \in UNION {[1..n -> OcrRegionBoxes] :
                                                  n \in 0..MaxOcrBoxes}}
    /\ ocr_texts \in UNION {[1..n -> OcrTexts] : n \in 0..MaxOcrTexts}
    /\ ocr_results =
        [bboxes |-> ocr_given,
         text_bboxes |-> [k \in DOMAIN ocr_texts |->
                            [id |-> k, box |-> OcrTextBoxes[((k - 1) % 4) + 1]]]]
    /\ ocr_i = 0
    /\ ocr_matches = <<>>
    /\ ocr_visuals = Metadata
    /\ ocr_warnings = 0
    /\ FirstIdle
    /\ ConvIdle /\ MetaIdle /\ FrameIdle /\ RunIdle /\ HocrIdle

\* lines 514-542: one of the four filter steps; its result replaces
\* ocr_results[page_id]["bboxes"]
FilterStep ==
    /\ opc \in {"size", "wide", "tall", "contained"}
    /\ LET filtered == ocr_filter_step(opc, ocr_results.bboxes, ocr_settings)
       IN  /\ filtered.raised = "none"
           /\ ocr_results' = [ocr_results EXCEPT !.bboxes = filtered.value]
    /\ opc' = IF next_stage(opc) = "regions" /\ Len(ocr_results'.bboxes) = 0
              THEN "done" ELSE next_stage(opc)
    /\ UNCHANGED <<ocr_settings, ocr_given, ocr_texts, ocr_i, ocr_matches,
                   ocr_visuals, ocr_warnings, first_vars, conv_vars,
                   meta_vars, frame_vars, run_vars, hocr_vars>>

\* lines 600-605: the Visual of the region, with the captions set and a
\* location, is added to the metadata
AddRegionVisual(region, found, captioned) ==
    /\ found.raised = "none"
    /\ ocr_matches' = found.matches
    /\ ocr_warnings' = captioned.warnings
    /\ ocr_visuals' =
         add_visual(ocr_visuals,
             Argument("Visual",
                 set_location(captioned.visual,
                     FilePath("output_dir", region.id), FALSE)))

\* lines 587-598: the captions are set from the matches found
CaptionRegion(region, found) ==
    AddRegionVisual(region, found,
        ocr_caption_loop(Visual(region.box, "px"), found.matches, 1,
                         ocr_warnings))

\* lines 557-581: the text regions near the region are collected
SearchRegion(region, texts) ==
    CaptionRegion(region,
        distance_loop(BoundingBox(region.box, "dpi", ocr_settings.resolution),
                      texts, 1, ocr_settings, <<>>))

\* lines 547-605, one iteration of the loop over the remaining regions
ProcessRegion ==
    /\ opc = "regions"
    /\ SearchRegion(ocr_results.bboxes[ocr_i + 1],
            [k \in DOMAIN ocr_results.text_bboxes |->
                OcrText(ocr_results.text_bboxes[k].box,
                        ocr_settings.resolution, ocr_texts[k])])
    /\ ocr_i' = ocr_i + 1
    /\ opc' = IF ocr_i + 1 = Len(ocr_results.bboxes) THEN "done" ELSE "regions"
    /\ UNCHANGED <<ocr_settings, ocr_results, ocr_given, ocr_texts,
                   first_vars, conv_vars, meta_vars, frame_vars, run_vars,
                   hocr_vars>>

NextOcr == FilterStep \/ ProcessRegion

SpecOcr == InitOcr /\ [][NextOcr]_vars

----------------------------------------------------------------------------
(* Claims on the filter steps of extract_visuals_by_ocr *)

RegionWidth(e) == e.box[3] - e.box[1]

RegionHeight(e) == e.box[4] - e.box[2]

\* the region is at least as wide and as high as the settings ask
HasMinimumSize(e) ==
    /\ ocr_settings.width # None => RegionWidth(e) >= ocr_settings.width[1]
    /\ ocr_settings.height # None => RegionHeight(e) >= ocr_settings.height[1]

\* width / height is at most 20
NotTooWide(e) == RegionWidth(e) <= 20 * RegionHeight(e)

\* width / height is at least 1/20
NotTooTall(e) == 20 * RegionWidth(e) >= RegionHeight(e)

AfterSize == SelectSeq(ocr_given, HasMinimumSize)

AfterWide == SelectSeq(AfterSize, NotTooWide)

AfterTall == SelectSeq(AfterWide, NotTooTall)

AfterContained == filter_bbox_contained(AfterTall)

\* C26: the page's non-text regions pass the size filter, the filter of
\* aspect ratios above 20, the filter of aspect ratios below 1/20 and the
\* containment filter in this order, each on the output of the one before,
\* and exactly the regions left after the four steps become Visuals, one
\* each
C26_FourFiltersInOrder ==
    /\ opc = "size" => ocr_results.bboxes = ocr_given
    /\ opc = "wide" => ocr_results.bboxes = AfterSize
    /\ opc = "tall" => ocr_results.bboxes = AfterWide
    /\ opc = "contained" => ocr_results.bboxes = AfterTall
    /\ opc \in {"regions", "done"} => ocr_results.bboxes = AfterContained
    /\ opc \notin {"regions", "done"} => ocr_visuals.total_visuals = 0
    /\ opc = "done" => ocr_visuals.total_visuals = Len(AfterContained)
    /\ ocr_visuals.visuals # None =>
         /\ Len(ocr_visuals.visuals) <= Len(AfterContained)
         /\ \A i \in DOMAIN ocr_visuals.visuals :
                ocr_visuals.visuals[i].bbox = AfterContained[i].box

\* the aspect ratio step removed a region, and the region left, which lies
\* inside the removed one, became the only Visual
C26_Witness ==
    /\ opc = "done"
    /\ Len(AfterWide) < Len(AfterSize)
    /\ Len(AfterContained) = 1
    /\ filter_bbox_contained(ocr_given) # <<>>
    /\ AfterContained[1].box \notin
         {filter_bbox_contained(ocr_given)[i].box :
            i \in DOMAIN filter_bbox_contained(ocr_given)}
    /\ ocr_visuals.total_visuals = 1

----------------------------------------------------------------------------
(* Claims on the captions of extract_visuals_by_ocr *)

\* the text region at position k shares a point with the band that has the
\* horizontal span of the region and reaches from its edge of larger y, the
\* lower one on the image, the offset further, in pixels: the direction of
\* the settings is down and the origin of an image is its top-left corner
IsNear(region, k) ==
    /\ ocr_settings.direction = "down"
    /\ ocr_settings.offset.unit = "px"
    /\ ocr_results.text_bboxes[k].box[1] <= region.box[3]
    /\ region.box[1] <= ocr_results.text_bboxes[k].box[3]
    /\ ocr_results.text_bboxes[k].box[2]
            <= region.box[4] + ocr_settings.offset.distance
    /\ region.box[4] <= ocr_results.text_bboxes[k].box[4]

\* the texts read in the text regions near the region, in the order of the
\* text regions, without the empty ones
TextsNear(region) ==
    LET RECURSIVE from(_)
        from(k) ==
            IF k > Len(ocr_texts) THEN <<>>
            ELSE IF IsNear(region, k) /\ ocr_texts[k] # <<>>
                 THEN <<ocr_texts[k]>> \o from(k + 1)
                 ELSE from(k + 1)
    IN  from(1)

\* the first two of the texts near a region, None when there is none
FirstTwo(near) ==
    IF Len(near) = 0 THEN None
    ELSE IF Len(near) = 1 THEN <<near[1]>>
    ELSE <<near[1], near[2]>>

\* the number of the texts near a region beyond the second
BeyondTwo(near) == IF Len(near) > 2 THEN Len(near) - 2 ELSE 0

\* the number of texts beyond the second, summed over the first n Visuals
RECURSIVE TextsRefused(_)
TextsRefused(n) ==
    IF n = 0 THEN 0
    ELSE TextsRefused(n - 1) + BeyondTwo(TextsNear(AfterContained[n]))

\* C28: a Visual of the OCR step has as captions the texts read in the text
\* regions that match its region by distance, in their order, the empty
\* texts left out and no keyword looked for; only the first two are kept,
\* each further one is logged as a warning and the processing goes on; the
\* Visual is added to the metadata, with its location, with or without a
\* caption
C28_OcrCaptionsByDistanceOnly ==
    /\ ocr_visuals.total_visuals = ocr_i
    /\ ocr_warnings = TextsRefused(ocr_i)
    /\ ocr_visuals.visuals # None =>
         /\ Len(ocr_visuals.visuals) = ocr_i
         /\ \A i \in DOMAIN ocr_visuals.visuals :
              /\ ocr_visuals.visuals[i].caption =
                    FirstTwo(TextsNear(AfterContained[i]))
              /\ ocr_visuals.visuals[i].location =
                    FilePath("output_dir", AfterContained[i].id)
    /\ opc = "done" => ocr_i = Len(AfterContained)

\* a Visual was added without a caption after one that got the first two of
\* three texts, the third one, different from the second, logged as a warning
C28_Witness ==
    /\ opc = "done"
    /\ ocr_visuals.total_visuals = 2
    /\ ocr_warnings = 1
    /\ LET near == TextsNear(AfterContained[1])
       IN  /\ Len(near) = 3
           /\ near[3] # near[2]
           /\ ocr_visuals.visuals[1].caption = <<near[1], near[2]>>
    /\ ocr_visuals.visuals[2].caption = None

----------------------------------------------------------------------------
(* pipelines.py: LayoutOCR.run, the two steps applied to each PDF file *)

\* lines 213-219: the pages sorted before an exception of pdfminer ended the
\* loop; a page is its number and the number of images found in it
sorted_pages(pdf) ==
    [k \in 1..pdf.readable |-> [page_number |-> k, images |-> pdf.images[k]]]

\* lines 239-241: when every page was sorted, del elements is run; in a file
\* without pages the name was never bound and UnboundLocalError leaves
\* extract_visuals_by_layout and LayoutOCR.run
del_elements_raises(pdf) ==
    pdf.readable = Len(pdf.images) /\ Len(pdf.images) = 0

\* mutant: every page is collected for the OCR step
collect_no_image_page_always(collected, a_page) ==
    Append(collected, a_page)

\* lines 254-256: a page in which no image was found is collected
collect_no_image_page(collected, a_page) ==
    IF a_page.images = 0 THEN Append(collected, a_page)
    ELSE collected

\* an entry of the record of what the run did
Step(step, pdf, page_number) ==
    [step |-> step, pdf |-> pdf, page |-> page_number]

----------------------------------------------------------------------------
(* Specification SpecRun: LayoutOCR.run over the PDF files of an entry *)

MaxPdfs == 2
MaxPages == 2

\* a PDF file: the number of images on each page, none or one, and the
\* number of pages that can be sorted: all of them, or those before the page
\* at which pdfminer raises one of the exceptions of lines 223-238
PdfFiles ==
    UNION {[images : [1..n -> 0..1], readable : 0..n] : n \in 0..MaxPages}

InitRun ==
    /\ upc = "pdf"
    /\ pdf_files \in UNION {[1..n -> PdfFiles] : n \in 0..MaxPdfs}
    /\ pdf_i = 0
    /\ page_i = 0
    /\ layout_results = <<>>
    /\ run_log = <<>>
    /\ FirstIdle
    /\ ConvIdle /\ MetaIdle /\ FrameIdle /\ OcrIdle /\ HocrIdle

\* lines 1038-1046 and 206-241: the next PDF file is handed to
\* extract_visuals_by_layout, which sorts its pages; the run ends there for
\* a file without pages
CallLayout ==
    /\ upc = "pdf"
    /\ pdf_i < Len(pdf_files)
    /\ pdf_i' = pdf_i + 1
    /\ page_i' = 0
    /\ layout_results' = <<>>
    /\ upc' = IF del_elements_raises(pdf_files[pdf_i + 1]) THEN "raised"
              ELSE "layout"
    /\ UNCHANGED <<pdf_files, run_log, first_vars, conv_vars, meta_vars,
                   frame_vars, ocr_vars, hocr_vars>>

\* lines 248-360: one page of the layout step; the processing of its images
\* can raise
LayoutPage ==
    /\ upc = "layout"
    /\ page_i < pdf_files[pdf_i].readable
    /\ LET a_page == sorted_pages(pdf_files[pdf_i])[page_i + 1]
       IN  /\ layout_results' = collect_no_image_page(layout_results, a_page)
           /\ run_log' = Append(run_log,
                                Step("layout", pdf_i, a_page.page_number))
           /\ \E raised \in {r \in BOOLEAN : r => a_page.images > 0} :
                upc' = IF raised THEN "raised" ELSE "layout"
    /\ page_i' = page_i + 1
    /\ UNCHANGED <<pdf_files, pdf_i, first_vars, conv_vars, meta_vars,
                   frame_vars, ocr_vars, hocr_vars>>

\* lines 363 and 1048-1053, 418-428: the layout step returns and
\* extract_visuals_by_ocr is called with the pages collected; with an empty
\* list it returns at once
CallOcr ==
    /\ upc = "layout"
    /\ page_i = pdf_files[pdf_i].readable
    /\ page_i' = 0
    /\ upc' = IF Len(layout_results) = 0 THEN "pdf" ELSE "ocr"
    /\ UNCHANGED <<pdf_files, pdf_i, layout_results, run_log, first_vars,
                   conv_vars, meta_vars, frame_vars, ocr_vars, hocr_vars>>

\* lines 491-608: one page of the OCR step, which can raise; after the last
\* page the function returns
OcrPage ==
    /\ upc = "ocr"
    /\ page_i < Len(layout_results)
    /\ run_log' = Append(run_log,
                    Step("ocr", pdf_i, layout_results[page_i + 1].page_number))
    /\ page_i' = page_i + 1
    /\ \E raised \in BOOLEAN :
         upc' = IF raised THEN "raised"
                ELSE IF page_i + 1 = Len(layout_results) THEN "pdf"
                ELSE "ocr"
    /\ UNCHANGED <<pdf_files, pdf_i, layout_results, first_vars, conv_vars,
                   meta_vars, frame_vars, ocr_vars, hocr_vars>>

NextRun == CallLayout \/ LayoutPage \/ CallOcr \/ OcrPage

SpecRun == InitRun /\ [][NextRun]_vars

----------------------------------------------------------------------------
(* Claims on LayoutOCR.run *)

\* the page numbers of the steps of one kind taken for a PDF file, in order
PagesOfStep(step, pdf) ==
    LET RECURSIVE from(_)
        from(k) ==
            IF k > Len(run_log) THEN <<>>
            ELSE IF run_log[k].step = step /\ run_log[k].pdf = pdf
                 THEN <<run_log[k].page>> \o from(k + 1)
                 ELSE from(k + 1)
    IN  from(1)

\* the pages of a PDF file in which the layout step finds no image
PagesWithoutImages(pdf) ==
    LET RECURSIVE from(_)
        from(k) ==
            IF k > pdf_files[pdf].readable THEN <<>>
            ELSE IF pdf_files[pdf].images[k] = 0
                 THEN <<k>> \o from(k + 1)
                 ELSE from(k + 1)
    IN  from(1)

\* both steps have returned for the PDF file
IsProcessed(pdf) == pdf < pdf_i \/ (pdf = pdf_i /\ upc = "pdf")

\* C27: for every PDF file the layout step has gone through all its pages
\* before the first page is processed by OCR; the pages processed by OCR are
\* the pages in which the layout step found no image, each once, and all of
\* them when the OCR step returns; a page with an image is never processed
\* by OCR, and no OCR is done for a file without such pages
C27_OcrOnlyOnPagesWithoutImages ==
    /\ \A i, j \in DOMAIN run_log :
         (i < j /\ run_log[i].pdf = run_log[j].pdf)
            => ~(run_log[i].step = "ocr" /\ run_log[j].step = "layout")
    /\ \A p \in DOMAIN pdf_files :
         LET ocr == PagesOfStep("ocr", p)
             none == PagesWithoutImages(p)
         IN  /\ Len(ocr) > 0 =>
                    Len(PagesOfStep("layout", p)) = pdf_files[p].readable
             /\ Len(ocr) <= Len(none)
             /\ \A k \in DOMAIN ocr :
                    /\ ocr[k] = none[k]
                    /\ pdf_files[p].images[ocr[k]] = 0
             /\ IsProcessed(p) => ocr = none

\* two files are processed: in the first the OCR step took the one page
\* without an image and not the page with one, for the second, where every
\* page has an image, no OCR was done
C27_Witness ==
    /\ Len(pdf_files) = 2 /\ IsProcessed(2)
    /\ pdf_files[1].readable = 2
    /\ pdf_files[1].images = <<1, 0>>
    /\ PagesOfStep("ocr", 1) = <<2>>
    /\ pdf_files[2].readable > 0
    /\ PagesOfStep("layout", 2) # <<>>
    /\ PagesOfStep("ocr", 2) = <<>>

----------------------------------------------------------------------------
(* ocr.py: extract_bboxes_from_horc *)

\* a paragraph of the hOCR document of an image: its id, whether its first
\* word has text, and the bounding box of its title
Paragraph(id, has_text, box) == [id |-> id, has_text |-> has_text, box |-> box]

\* lines 122-129: non_text_bboxes (text = FALSE) or text_bboxes (text = TRUE)
\* of an image once all its paragraphs are read
RECURSIVE image_bboxes(_, _, _)
image_bboxes(paragraphs, k, text) ==
    IF k > Len(paragraphs) THEN <<>>
    ELSE IF paragraphs[k].has_text = text
         THEN <<[id |-> paragraphs[k].id, box |-> paragraphs[k].box]>>
              \o image_bboxes(paragraphs, k + 1, text)
         ELSE image_bboxes(paragraphs, k + 1, text)

\* the key f'{entry_id}-page-{n}', or f'page-{n}' for the entry_id None
PageKey(entry_id, n) == [entry_id |-> entry_id, page |-> n]

\* hocr_results[key] = value: a key that is present keeps its position
SetItem(results, key, value) ==
    IF \E n \in DOMAIN results : results[n].key = key
    THEN [n \in DOMAIN results |->
            IF results[n].key = key THEN [key |-> key, value |-> value]
            ELSE results[n]]
    ELSE Append(results, [key |-> key, value |-> value])

\* lines 103-150: the loop over the images and, inside it, over the
\* paragraphs of image i from paragraph j on. Every paragraph advances the
\* counter and assigns an entry; the entries of an image hold the same two
\* dictionaries, which have all the regions of the image when the function
\* returns
RECURSIVE hocr_loop(_, _, _, _, _, _, _)
hocr_loop(images, i, j, page_counter, page_number, entry_id, results) ==
    IF i > Len(images) THEN results
    ELSE IF j > Len(images[i])
    THEN hocr_loop(images, i + 1, 1, page_counter, page_number, entry_id,
                   results)
    ELSE LET n == IF page_counter # None THEN page_counter[1]
                  ELSE page_number[1]
             value == [img |-> i,
                       bboxes |-> image_bboxes(images[i], 1, FALSE),
                       text_bboxes |-> image_bboxes(images[i], 1, TRUE)]
         IN  hocr_loop(images, i, j + 1,
                IF page_counter # None THEN <<page_counter[1] + 1>> ELSE None,
                page_number, entry_id,
                SetItem(results, PageKey(entry_id, n), value))

\* lines 92-155 for a resize within the limit of Tesseract: page_number is
\* None or <<n>> for the int n
extract_bboxes_from_horc(images, page_number, entry_id) ==
    hocr_loop(images, 1, 1,
              IF page_number # None THEN None ELSE <<1>>,
              page_number, entry_id, <<>>)

----------------------------------------------------------------------------
(* Specification SpecHocr: one call of extract_bboxes_from_horc *)

MaxHocrImages == 2
MaxParagraphs == 2

\* the paragraphs of an image: each with or without text, paragraph k in
\* the square from (k, k) to (k + 1, k + 1)
HocrImages ==
    {[k \in DOMAIN t |-> Paragraph(k, t[k], <<k, k, k + 1, k + 1>>)] :
        t \in UNION {[1..n -> BOOLEAN] : n \in 0..MaxParagraphs}}

InitHocr ==
    /\ hpc = "start"
    /\ h_images \in UNION {[1..n -> HocrImages] : n \in 0..MaxHocrImages}
    /\ h_entry_id \in {None, <<"e">>}
    /\ h_page_number \in {None, <<1>>, <<MaxHocrImages + 1>>}
    /\ hocr_results = <<>>
    /\ FirstIdle
    /\ ConvIdle /\ MetaIdle /\ FrameIdle /\ OcrIdle /\ RunIdle

CallExtractBboxes ==
    /\ hpc = "start"
    /\ hocr_results' =
         extract_bboxes_from_horc(h_images, h_page_number, h_entry_id)
    /\ hpc' = "done"
    /\ UNCHANGED <<h_images, h_entry_id, h_page_number, first_vars,
                   conv_vars, meta_vars, frame_vars, ocr_vars, run_vars>>

NextHocr == CallExtractBboxes

SpecHocr == InitHocr /\ [][NextHocr]_vars

----------------------------------------------------------------------------
(* Claims on extract_bboxes_from_horc *)

\* the positions in the list of the images with a paragraph
ImagesWithParagraphs == {i \in DOMAIN h_images : Len(h_images[i]) > 0}

\* C30: without a page number the dictionary returned has one entry for
\* each image in which paragraphs were recognised, under the key of the
\* position k of the image in the list, 'page-k' or '<entry_id>-page-k',
\* and the entry holds the non-text and the text regions of that image
C30_OneEntryPerImage ==
    (hpc = "done" /\ h_page_number = None) =>
        /\ Len(hocr_results) = Cardinality(ImagesWithParagraphs)
        /\ \A i \in ImagesWithParagraphs :
             \E n \in DOMAIN hocr_results :
                /\ hocr_results[n].key = PageKey(h_entry_id, i)
                /\ hocr_results[n].value.img = i
                /\ hocr_results[n].value.bboxes =
                        image_bboxes(h_images[i], 1, FALSE)
                /\ hocr_results[n].value.text_bboxes =
                        image_bboxes(h_images[i], 1, TRUE)

====
